---- MODULE Spec2Model ----
(***************************************************************************)
(* Codegen pipeline of rstf: the Go source parser, the import-graph        *)
(* walker, the artifact generators, the full build (Generator.Generate)    *)
(* and the incremental rebuild (Generator.Regenerate).                     *)
(*                                                                         *)
(* Paths are project-relative strings ("routes/a/index.tsx"); the project  *)
(* root is the directory ".".  Generated files live in a separate map, the *)
(* content of the .rstf/ directory.  Texts are strings built by            *)
(* concatenation the way the generators build them; constant boilerplate   *)
(* is shortened.                                                           *)
(***************************************************************************)
EXTENDS Integers, Sequences, FiniteSets, TLC

(***************************************************************************)
(* Bounds of the model.                                                    *)
(***************************************************************************)
MaxEdits == 2

MaxBatch == 2

(***************************************************************************)
(* Generic helpers.                                                        *)
(***************************************************************************)
\* the sequences that enumerate a finite set, each element once
RECURSIVE Perms(_)
Perms(S) ==
  IF S = {} THEN {<<>>}
  ELSE UNION {{<<x>> \o p : p \in Perms(S \ {x})} : x \in S}

\* the range of a sequence
Range(s) == {s[i] : i \in 1..Len(s)}

\* finite maps: the empty map, insertion and removal of keys
EmptyMap == [x \in {} |-> x]

Put(m, k, v) == [x \in DOMAIN m \cup {k} |-> IF x = k THEN v ELSE m[x]]

Drop(m, ks) == [x \in DOMAIN m \ ks |-> m[x]]

\* strings.HasPrefix
HasPrefix(s, p) == Len(s) >= Len(p) /\ SubSeq(s, 1, Len(p)) = p

\* strings.TrimPrefix
TrimPrefix(s, p) == IF HasPrefix(s, p) THEN SubSeq(s, Len(p) + 1, Len(s)) ELSE s

\* strings.HasSuffix / strings.TrimSuffix
HasSuffix(s, p) == Len(s) >= Len(p) /\ SubSeq(s, Len(s) - Len(p) + 1, Len(s)) = p

TrimSuffix(s, p) == IF HasSuffix(s, p) THEN SubSeq(s, 1, Len(s) - Len(p)) ELSE s

\* strings.Contains for a one-character needle
ContainsChar(s, c) == \E i \in 1..Len(s) : SubSeq(s, i, i) = c

\* strings.ReplaceAll for a one-character needle
RECURSIVE ReplaceAll(_, _, _)
ReplaceAll(s, c, r) ==
  IF Len(s) = 0 THEN ""
  ELSE (IF SubSeq(s, 1, 1) = c THEN r ELSE SubSeq(s, 1, 1))
         \o ReplaceAll(SubSeq(s, 2, Len(s)), c, r)

\* strings.Split for a one-character separator
RECURSIVE SplitFrom(_, _, _)
SplitFrom(s, c, cur) ==
  IF Len(s) = 0 THEN <<cur>>
  ELSE IF SubSeq(s, 1, 1) = c
       THEN <<cur>> \o SplitFrom(SubSeq(s, 2, Len(s)), c, "")
       ELSE SplitFrom(SubSeq(s, 2, Len(s)), c, cur \o SubSeq(s, 1, 1))

Split(s, c) == SplitFrom(s, c, "")

\* strings.Join
RECURSIVE Join(_, _)
Join(parts, sep) ==
  IF Len(parts) = 0 THEN ""
  ELSE IF Len(parts) = 1 THEN parts[1]
  ELSE parts[1] \o sep \o Join(Tail(parts), sep)

\* index of the last "/" of a path, 0 when there is none
LastSlash(p) ==
  LET S == {i \in 1..Len(p) : SubSeq(p, i, i) = "/"}
  IN  IF S = {} THEN 0 ELSE CHOOSE i \in S : \A j \in S : j <= i

\* filepath.Dir on a clean relative path
PathDir(p) == IF LastSlash(p) = 0 THEN "." ELSE SubSeq(p, 1, LastSlash(p) - 1)

\* filepath.Join(dir, name) on clean relative paths
PathJoin(dir, name) == IF dir = "." THEN name ELSE dir \o "/" \o name

\* lexicographic order of strings over the characters the model uses
Alphabet == "$-./0123456789ABCDEFGHIJKLMNOPQRSTUVWXYZ_abcdefghijklmnopqrstuvwxyz{}"

CharRanks ==
  [c \in {SubSeq(Alphabet, i, i) : i \in 1..Len(Alphabet)} |->
     CHOOSE i \in 1..Len(Alphabet) : SubSeq(Alphabet, i, i) = c]

CharRank(c) == CharRanks[c]

RECURSIVE StrLess(_, _)
StrLess(a, b) ==
  IF Len(b) = 0 THEN FALSE
  ELSE IF Len(a) = 0 THEN TRUE
  ELSE IF SubSeq(a, 1, 1) = SubSeq(b, 1, 1)
       THEN StrLess(SubSeq(a, 2, Len(a)), SubSeq(b, 2, Len(b)))
       ELSE CharRank(SubSeq(a, 1, 1)) < CharRank(SubSeq(b, 1, 1))

\* sort.Strings of a set of distinct strings
RECURSIVE SortStrings(_)
SortStrings(S) ==
  IF S = {} THEN <<>>
  ELSE LET m == CHOOSE x \in S : \A y \in S \ {x} : StrLess(x, y)
       IN  <<m>> \o SortStrings(S \ {m})

(***************************************************************************)
(* internal/conventions                                                    *)
(***************************************************************************)
\* FolderToURLPattern with segments copied as they are: a faulty variant
URLSegmentPlain(seg) == seg

\* one segment of a folder name: $param becomes {param}
URLSegment(seg) == IF HasPrefix(seg, "$") THEN "{" \o SubSeq(seg, 2, Len(seg)) \o "}" ELSE seg

FolderToURLPattern(folderName) ==
  IF folderName = "index" THEN "/"
  ELSE LET segs == Split(folderName, ".")
       IN  "/" \o Join([i \in 1..Len(segs) |-> URLSegment(segs[i])], "/")

IsRouteDir(path) == path = "routes" \/ HasPrefix(path, "routes/")

(***************************************************************************)
(* Go sources.  A directory holds at most one .go file; its text is one of *)
(* the sources below, given as the syntax tree go/parser builds for it.    *)
(* A type expression is [form, name]: form "ident" (T), "slice" ([]T),     *)
(* "star" (pointer to T), "sel" (pkg.T) or "starsel" (pointer to pkg.T).   *)
(***************************************************************************)
NoFile == "none"

Ty(form, name) == [form |-> form, name |-> name]

Fld(name, tag, ty) == [name |-> name, tag |-> tag, type |-> ty]

TypeDecl(name, fields) == [kind |-> "type", name |-> name, fields |-> fields]

FuncDecl(name, params, results) ==
  [kind |-> "func", name |-> name, recv |-> FALSE, params |-> params, results |-> results]

ServerDataOne == TypeDecl("ServerData", <<Fld("Title", "", Ty("ident", "string"))>>)

ServerDataMain == TypeDecl("ServerData", <<Fld("Name", "", Ty("ident", "string"))>>)

GoSource(v) ==
  CASE v = "one" ->
         \* package page; type ServerData struct{ Title string }; func SSR() ServerData
         [ok |-> TRUE, pkg |-> "page",
          decls |-> <<ServerDataOne, FuncDecl("SSR", <<>>, <<Ty("ident", "ServerData")>>)>>]
    [] v = "two" ->
         \* package page; ServerData{ Posts []Post }, Post{...}, an unused Dead;
         \* func SSR(ctx *rstf.Context) ServerData
         [ok |-> TRUE, pkg |-> "page",
          decls |-> <<TypeDecl("Post", <<Fld("Title", "json:\"title,omitempty\"", Ty("ident", "string")),
                                         Fld("secret", "", Ty("ident", "int")),
                                         Fld("Hidden", "json:\"-\"", Ty("ident", "string")),
                                         Fld("Published", "", Ty("ident", "bool"))>>),
                      TypeDecl("ServerData", <<Fld("Posts", "", Ty("slice", "Post"))>>),
                      TypeDecl("Dead", <<Fld("N", "", Ty("ident", "int"))>>),
                      FuncDecl("SSR", <<Ty("starsel", "Context")>>, <<Ty("ident", "ServerData")>>)>>]
    [] v = "prim" ->
         \* package api; func SSR() string; func DoSomething() string
         [ok |-> TRUE, pkg |-> "api",
          decls |-> <<FuncDecl("SSR", <<>>, <<Ty("ident", "string")>>),
                      FuncDecl("DoSomething", <<>>, <<Ty("ident", "string")>>)>>]
    [] v = "main" ->
         \* package main; type ServerData struct{ Name string }; func SSR() ServerData
         [ok |-> TRUE, pkg |-> "main",
          decls |-> <<ServerDataMain, FuncDecl("SSR", <<>>, <<Ty("ident", "ServerData")>>)>>]
    [] v = "deep" ->
         \* package page; ServerData{ Posts []Post; At time.Time; secret Hidden },
         \* Post{ Comments []Comment }, Comment{ Parent *Comment; Post Post },
         \* and the unreferenced Hidden{ N int }, Dead{ Ghost Ghost }, Ghost{ N int };
         \* func SSR(ctx *rstf.Context) ServerData
         [ok |-> TRUE, pkg |-> "page",
          decls |-> <<TypeDecl("ServerData", <<Fld("Posts", "", Ty("slice", "Post")),
                                               Fld("At", "", Ty("sel", "Time")),
                                               Fld("secret", "", Ty("ident", "Hidden"))>>),
                      TypeDecl("Post", <<Fld("Comments", "", Ty("slice", "Comment"))>>),
                      TypeDecl("Comment", <<Fld("Parent", "", Ty("star", "Comment")),
                                            Fld("Post", "", Ty("ident", "Post"))>>),
                      TypeDecl("Hidden", <<Fld("N", "", Ty("ident", "int"))>>),
                      TypeDecl("Dead", <<Fld("Ghost", "", Ty("ident", "Ghost"))>>),
                      TypeDecl("Ghost", <<Fld("N", "", Ty("ident", "int"))>>),
                      FuncDecl("SSR", <<Ty("starsel", "Context")>>, <<Ty("ident", "ServerData")>>)>>]
    [] v = "app" ->
         \* package myapp; func App(app *rstf.App) {}
         [ok |-> TRUE, pkg |-> "myapp",
          decls |-> <<FuncDecl("App", <<Ty("starsel", "App")>>, <<>>)>>]
    [] v = "err" ->
         \* package page; type ServerData struct{ Title string }; func SSR() error
         [ok |-> TRUE, pkg |-> "page",
          decls |-> <<ServerDataOne, FuncDecl("SSR", <<>>, <<Ty("ident", "error")>>)>>]
    [] v = "multi" ->
         \* package page; type ServerData struct{ Title string };
         \* func SSR() (ServerData, error)
         [ok |-> TRUE, pkg |-> "page",
          decls |-> <<ServerDataOne,
                      FuncDecl("SSR", <<>>, <<Ty("ident", "ServerData"), Ty("ident", "error")>>)>>]
    [] v = "slice" ->
         \* package page; type ServerData struct{ Title string }; func SSR() []ServerData
         [ok |-> TRUE, pkg |-> "page",
          decls |-> <<ServerDataOne, FuncDecl("SSR", <<>>, <<Ty("slice", "ServerData")>>)>>]
    [] v = "void" ->
         \* package page; type ServerData struct{ Title string }; func SSR() {}
         [ok |-> TRUE, pkg |-> "page", decls |-> <<ServerDataOne, FuncDecl("SSR", <<>>, <<>>)>>]
    [] OTHER ->
         \* "bad": a file go/parser rejects
         [ok |-> FALSE, pkg |-> "", decls |-> <<>>]

(***************************************************************************)
(* parse.go                                                                *)
(***************************************************************************)
Nil == [nil |-> TRUE]

routeFuncNames == {"SSR"}

isPrimitiveGoType(name) ==
  name \in {"string", "bool", "int", "int8", "int16", "int32", "int64",
            "uint", "uint8", "uint16", "uint32", "uint64", "float32", "float64"}

goTypeToTS(goType, isSlice) ==
  LET tsType == IF goType = "string" THEN "string"
                ELSE IF goType \in {"int", "int8", "int16", "int32", "int64", "uint", "uint8",
                                    "uint16", "uint32", "uint64", "float32", "float64"}
                     THEN "number"
                ELSE IF goType = "bool" THEN "boolean"
                ELSE goType
  IN  IF isSlice THEN tsType \o "[]" ELSE tsType

\* resolveType: the type name and whether it is a slice
resolveType(expr) ==
  CASE expr.form = "ident" -> <<expr.name, FALSE>>
    [] expr.form = "slice" -> <<expr.name, TRUE>>
    [] expr.form = "star"  -> <<expr.name, FALSE>>
    [] OTHER               -> <<"", FALSE>>

isContextParam(expr) == expr.form = "starsel" /\ expr.name = "Context"

UpperChars == "ABCDEFGHIJKLMNOPQRSTUVWXYZ"

LowerChars == "abcdefghijklmnopqrstuvwxyz"

ToLowerChar(c) ==
  LET S == {i \in 1..26 : SubSeq(UpperChars, i, i) = c}
  IN  IF S = {} THEN c ELSE LET i == CHOOSE i \in S : TRUE IN SubSeq(LowerChars, i, i)

\* ast.IsExported
IsExported(name) == Len(name) > 0 /\ \E i \in 1..26 : SubSeq(UpperChars, i, i) = SubSeq(name, 1, 1)

lcFirst(s) == IF s = "" THEN s ELSE ToLowerChar(SubSeq(s, 1, 1)) \o SubSeq(s, 2, Len(s))

\* jsonTagName: the name of a json:"name,opts" tag, "" without one; the tag is
\* field.Tag.Value with its back quotes already trimmed
jsonTagName(tag) ==
  IF tag = "" THEN ""
  ELSE LET parts == Split(tag, " ")
           hits  == {i \in 1..Len(parts) : HasPrefix(parts[i], "json:\"")}
       IN  IF hits = {} THEN ""
           ELSE LET i   == CHOOSE i \in hits : \A j \in hits : i <= j
                    val == TrimSuffix(TrimPrefix(parts[i], "json:\""), "\"")
                IN  Split(val, ",")[1]

\* one field of a struct declaration: <<>> when skipped, else <<StructField>>
extractField(f) ==
  LET jsonName == IF jsonTagName(f.tag) = "" THEN lcFirst(f.name) ELSE jsonTagName(f.tag)
      rt       == resolveType(f.type)
  IN  IF ~IsExported(f.name) \/ jsonName = "-" THEN <<>>
      ELSE <<[Name |-> f.name, JSONName |-> jsonName, Type |-> goTypeToTS(rt[1], rt[2])]>>

RECURSIVE extractFields(_)
extractFields(fs) ==
  IF Len(fs) = 0 THEN <<>> ELSE extractField(fs[1]) \o extractFields(Tail(fs))

\* extractStructs: struct name -> StructDef, for the declarations of one file
extractStructs(src) ==
  LET ds    == {i \in 1..Len(src.decls) : src.decls[i].kind = "type"}
      names == {src.decls[i].name : i \in ds}
  IN  [n \in names |->
         LET i == CHOOSE i \in ds : src.decls[i].name = n /\ \A j \in ds : src.decls[j].name = n => j <= i
         IN  [Name |-> n, Fields |-> extractFields(src.decls[i].fields)]]

\* parseRouteFunc: <<>> when the function is not a handler, else <<RouteFunc>>
parseRouteFunc(fn) ==
  IF Len(fn.results) # 1 THEN <<>>
  ELSE LET rt == resolveType(fn.results[1])
       IN  IF rt[1] = "" \/ rt[2] \/ isPrimitiveGoType(rt[1]) THEN <<>>
           ELSE <<[Name |-> fn.name, ReturnType |-> rt[1],
                   HasContext |-> Len(fn.params) > 0 /\ isContextParam(fn.params[1])]>>

RECURSIVE routeFuncs(_)
routeFuncs(decls) ==
  IF Len(decls) = 0 THEN <<>>
  ELSE (IF decls[1].kind = "func" /\ ~decls[1].recv /\ decls[1].name \in routeFuncNames
        THEN parseRouteFunc(decls[1]) ELSE <<>>) \o routeFuncs(Tail(decls))

\* resolveTransitiveStructs: breadth-first closure over field types
RECURSIVE resolveQueue(_, _, _)
resolveQueue(queue, result, allStructs) ==
  IF Len(queue) = 0 THEN result
  ELSE LET name == queue[1]
       IN  IF name \in result THEN resolveQueue(Tail(queue), result, allStructs)
           ELSE IF name \notin DOMAIN allStructs
                THEN resolveQueue(Tail(queue), result \cup {name}, allStructs)
           ELSE LET fs   == allStructs[name].Fields
                    more == SelectSeq([i \in 1..Len(fs) |-> TrimSuffix(fs[i].Type, "[]")],
                                      LAMBDA t : t \in DOMAIN allStructs /\ t \notin (result \cup {name}))
                IN  resolveQueue(Tail(queue) \o more, result \cup {name}, allStructs)

resolveRootsOnly(roots, allStructs) == roots

resolveTransitiveStructs(roots, allStructs) ==
  resolveQueue(SortStrings(roots), {}, allStructs)

\* parseRouteDir: the RouteFiles the parse of one directory can return.  The
\* struct list is collected by ranging over a Go map, so every order of the
\* reachable structs is a possible result.  Nil: no handler in the directory.
parseRouteDir(dir, src) ==
  LET structDefs == extractStructs(src)
      funcs      == routeFuncs(src.decls)
      allRefs    == resolveTransitiveStructs({funcs[i].ReturnType : i \in 1..Len(funcs)}, structDefs)
      found      == allRefs \cap DOMAIN structDefs
  IN  IF Len(funcs) = 0 THEN {Nil}
      ELSE {[Dir |-> dir, Package |-> src.pkg, Funcs |-> funcs,
             Structs |-> [i \in 1..Len(order) |-> structDefs[order[i]]]] : order \in Perms(found)}

(***************************************************************************)
(* typescript.go: the text generators.                                     *)
(***************************************************************************)
ToUpperChar(c) ==
  LET S == {i \in 1..26 : SubSeq(LowerChars, i, i) = c}
  IN  IF S = {} THEN c ELSE LET i == CHOOSE i \in S : TRUE IN SubSeq(UpperChars, i, i)

ucFirst(s) == IF s = "" THEN s ELSE ToUpperChar(SubSeq(s, 1, 1)) \o SubSeq(s, 2, Len(s))

\* concatenation of the strings of a sequence
RECURSIVE Concat(_)
Concat(parts) == IF Len(parts) = 0 THEN "" ELSE parts[1] \o Concat(Tail(parts))

\* Namespace: the PascalCase namespace of a directory path
Namespace(dir) ==
  LET parts == SelectSeq(Split(dir, "/"), LAMBDA x : x # "" /\ x # ".")
  IN  Concat([i \in 1..Len(parts) |-> ucFirst(parts[i])])

\* the interface block of one struct
DTSInterface(sd) ==
  "  interface " \o sd.Name \o " {\n"
    \o Concat([i \in 1..Len(sd.Fields) |->
                 "    " \o sd.Fields[i].JSONName \o ": " \o sd.Fields[i].Type \o ";\n"])
    \o "  }\n\n"

\* GenerateDTS: one interface per struct, in the order of rf.Structs, then one
\* props interface per handler
GenerateDTS(rf) ==
  "// Code generated by rstf. DO NOT EDIT.\n\n"
    \o "declare namespace " \o Namespace(rf.Dir) \o " {\n"
    \o Concat([i \in 1..Len(rf.Structs) |-> DTSInterface(rf.Structs[i])])
    \o Concat([i \in 1..Len(rf.Funcs) |->
                 "  interface " \o rf.Funcs[i].Name \o "Props extends "
                   \o rf.Funcs[i].ReturnType \o " {\n  }\n"])
    \o "}\n"

\* GenerateRuntimeModule: the dual-mode data module, "" without handlers
GenerateRuntimeModule(rf, componentPath) ==
  IF Len(rf.Funcs) = 0 THEN ""
  ELSE "let _data = typeof window !== \"undefined\" ? window.__RSTF_SERVER_DATA__[\""
         \o componentPath \o "\"] : {};\n"
         \o "export function serverData() { return _data; }\n"
         \o "export function __setServerData(d) { _data = d; }\n"

\* GenerateHydrationEntry: the client bootstrap of one route, naming the
\* runtime module of every dependency directory in the order given
GenerateHydrationEntry(routeDir, routeDeps) ==
  "import { View as Layout } from \"../../main\";\n"
    \o "import { View as Route } from \"../../" \o routeDir \o "\";\n"
    \o Concat([i \in 1..Len(routeDeps) |-> "import \"@rstf/" \o routeDeps[i] \o "\";\n"])
    \o "hydrateRoot(document, Layout(Route));\n"

\* entryFileName: the file name of a route's hydration entry
entryFileName(routeDir) == TrimPrefix(routeDir, "routes/") \o ".entry.tsx"

\* bundlePath: the URL of a route's client bundle
bundlePath(routeDir) == "/.rstf/static/" \o TrimPrefix(routeDir, "routes/") \o "/bundle.js"

(***************************************************************************)
(* generate.go: path helpers                                               *)
(***************************************************************************)
dtsFileName(dir) ==
  IF dir = "." THEN "main.d.ts"
  ELSE ReplaceAll(ReplaceAll(ReplaceAll(TrimPrefix(dir, "routes/"), "$", ""), ".", "-"), "/", "-")
         \o ".d.ts"

runtimeModulePath(dir) == IF dir = "." THEN "main.ts" ELSE dir \o ".ts"

componentPathForDir(dir) == IF dir = "." THEN "main" ELSE dir

\* paths of the generated files, relative to .rstf/
DTSPath(dir) == "types/" \o dtsFileName(dir)

RuntimePath(dir) == "generated/" \o runtimeModulePath(dir)

EntryPath(routeDir) == "entries/" \o entryFileName(routeDir)

LinkPath(dir) == "pkgs/" \o ReplaceAll(dir, "$", "")

ServerPath == "server_gen.go"

(***************************************************************************)
(* server.go                                                               *)
(***************************************************************************)
frameworkModule == "github.com/rafbgarcia/rstf"

\* the routeEntry of a route directory
RouteEntryOf(dir) ==
  [dir |-> dir, folderName |-> TrimPrefix(dir, "routes/"),
   urlPattern |-> FolderToURLPattern(TrimPrefix(dir, "routes/"))]

\* sort.Slice(routes, by urlPattern): below twelve elements the library runs an
\* insertion sort, which moves an element left only past strictly greater ones
RECURSIVE InsertRoute(_, _)
InsertRoute(sorted, r) ==
  IF Len(sorted) = 0 THEN <<r>>
  ELSE IF StrLess(r.urlPattern, sorted[Len(sorted)].urlPattern)
       THEN InsertRoute(SubSeq(sorted, 1, Len(sorted) - 1), r) \o <<sorted[Len(sorted)]>>
       ELSE sorted \o <<r>>

RECURSIVE SortRoutesFrom(_, _)
SortRoutesFrom(sorted, rest) ==
  IF Len(rest) = 0 THEN sorted ELSE SortRoutesFrom(InsertRoute(sorted, rest[1]), Tail(rest))

SortRoutes(routes) == SortRoutesFrom(<<>>, routes)

\* the routes of GenerateServer: the route directories among files, in the
\* order of files, then the route directories that are only keys of deps, in the
\* order the range over the deps map yields them (depsOrder)
ServerRoutes(files, deps, depsOrder) ==
  LET fromFiles == SelectSeq([i \in 1..Len(files) |-> files[i].Dir], IsRouteDir)
      fromDeps  == SelectSeq(depsOrder, LAMBDA d : d \notin Range(fromFiles) /\ IsRouteDir(d))
      all       == fromFiles \o fromDeps
  IN  SortRoutes([i \in 1..Len(all) |-> RouteEntryOf(all[i])])

\* collectImports.addImport applied to acc = [seen, usedAliases, imports]
addImport(acc, dir, modulePath, fileMap) ==
  IF dir \in acc.seen THEN acc
  ELSE IF dir \notin DOMAIN fileMap THEN [acc EXCEPT !.seen = @ \cup {dir}]
  ELSE LET rf         == fileMap[dir]
           importPath == IF dir = "." THEN modulePath
                         ELSE IF ContainsChar(dir, "$")
                              THEN modulePath \o "/.rstf/pkgs/" \o ReplaceAll(dir, "$", "")
                         ELSE modulePath \o "/" \o dir
           baseAlias  == IF dir = "." THEN "app" ELSE rf.Package
           alias      == IF baseAlias \in DOMAIN acc.usedAliases
                         THEN baseAlias \o ToString(acc.usedAliases[baseAlias] + 1)
                         ELSE baseAlias
           count      == IF baseAlias \in DOMAIN acc.usedAliases THEN acc.usedAliases[baseAlias] ELSE 0
           hasCtx     == Len(rf.Funcs) > 0 /\ rf.Funcs[1].HasContext
       IN  [seen        |-> acc.seen \cup {dir},
            usedAliases |-> Put(acc.usedAliases, baseAlias, count + 1),
            imports     |-> Append(acc.imports,
                                   [Alias |-> alias, ImportPath |-> importPath,
                                    Dir |-> dir, HasContext |-> hasCtx])]

RECURSIVE addImports(_, _, _, _)
addImports(acc, dirs, modulePath, fileMap) ==
  IF Len(dirs) = 0 THEN acc
  ELSE addImports(addImport(acc, dirs[1], modulePath, fileMap), Tail(dirs), modulePath, fileMap)

\* the deps of a route as the generated code ranges over them (nil when absent)
DepsOf(deps, dir) == IF dir \in DOMAIN deps THEN deps[dir] ELSE <<>>

\* collectImports: layout first, then every route and its deps in route order
collectImports(modulePath, hasLayout, routes, deps, fileMap) ==
  LET perRoute == [i \in 1..Len(routes) |-> <<routes[i].dir>> \o DepsOf(deps, routes[i].dir)]
      RECURSIVE Flat(_)
      Flat(ss) == IF Len(ss) = 0 THEN <<>> ELSE ss[1] \o Flat(Tail(ss))
      order    == (IF hasLayout THEN <<".">> ELSE <<>>) \o Flat(perRoute)
  IN  addImports([seen |-> {}, usedAliases |-> EmptyMap, imports |-> <<>>],
                 order, modulePath, fileMap).imports

writeHeader == "// Code generated by rstf. DO NOT EDIT.\npackage main\n\n"

writeImports(imports) ==
  "import (\n\t\"encoding/json\"\n\n"
    \o "\trstf \"" \o frameworkModule \o "\"\n"
    \o "\t\"" \o frameworkModule \o "/renderer\"\n\n"
    \o Concat([i \in 1..Len(imports) |->
                 "\t" \o imports[i].Alias \o " \"" \o imports[i].ImportPath \o "\"\n"])
    \o ")\n\n"

ssrCall(alias, hasContext) ==
  IF hasContext THEN "structToMap(" \o alias \o ".SSR(ctx))"
  ELSE "structToMap(" \o alias \o ".SSR())"

\* the ServerData entries of one route: <<key, call>> pairs
RouteSD(route, layout, hasLayout, aliasMap, deps) ==
  LET ds     == DepsOf(deps, route.dir)
      own    == SelectSeq(ds, LAMBDA d : d # "." /\ d \in DOMAIN aliasMap)
      first  == IF hasLayout /\ Len(layout.Funcs) > 0
                THEN <<<<"main", ssrCall(aliasMap["."].Alias, aliasMap["."].HasContext)>>>>
                ELSE <<>>
  IN  first \o [i \in 1..Len(own) |->
                  <<own[i], ssrCall(aliasMap[own[i]].Alias, aliasMap[own[i]].HasContext)>>]

\* the handler block writeMain emits for one route
RouteBlock(route, layout, hasLayout, aliasMap, deps) ==
  LET entries == RouteSD(route, layout, hasLayout, aliasMap, deps)
  IN  "\thttp.HandleFunc(\"GET " \o route.urlPattern \o "\", func() {\n"
        \o "\t\tsd := map[string]map[string]any{\n"
        \o Concat([i \in 1..Len(entries) |->
                     "\t\t\t\"" \o entries[i][1] \o "\": " \o entries[i][2] \o ",\n"])
        \o "\t\t}\n"
        \o "\t\t\tComponent: \"" \o route.dir \o "\",\n"
        \o "\t\t\tLayout:    \"main\",\n"
        \o (IF Len(entries) > 0 THEN "\t\t\tServerData: sd,\n" ELSE "")
        \o "\t\tassemblePage(html, sd, \"" \o bundlePath(route.dir) \o "\")\n\t})\n"

writeMain(routes, layout, hasLayout, aliasMap, deps) ==
  "func main() {\n"
    \o Concat([i \in 1..Len(routes) |-> RouteBlock(routes[i], layout, hasLayout, aliasMap, deps)])
    \o "\thttp.ListenAndServe(\":\"+*port, nil)\n}\n"

\* the validation without its test: a faulty variant that accepts any layout
reservedPackageNever(hasLayout, layout) == FALSE

\* the validation of GenerateServer: the layout must not declare package main
reservedPackage(hasLayout, layout) == hasLayout /\ layout.Package = "main"

\* GenerateServer: [err, text, imports].  files is the slice of RouteFiles as
\* supplied, depsOrder the order in which the range over the deps map yields
\* its keys; imports is the import list the text is written from.
GenerateServer(modulePath, files, deps, depsOrder) ==
  LET fileDirs  == {files[i].Dir : i \in 1..Len(files)}
      fileMap   == [d \in fileDirs |->
                      LET i == CHOOSE i \in 1..Len(files) :
                                 files[i].Dir = d /\ \A j \in 1..Len(files) : files[j].Dir = d => j <= i
                      IN  files[i]]
      hasLayout == "." \in fileDirs
      layout    == IF hasLayout THEN fileMap["."] ELSE Nil
      routes    == ServerRoutes(files, deps, depsOrder)
      imports   == collectImports(modulePath, hasLayout, routes, deps, fileMap)
      impDirs   == {imports[i].Dir : i \in 1..Len(imports)}
      aliasMap  == [d \in impDirs |-> imports[CHOOSE i \in 1..Len(imports) : imports[i].Dir = d]]
  IN  IF reservedPackage(hasLayout, layout)
      THEN [err |-> TRUE, text |-> "", imports |-> <<>>]
      ELSE [err |-> FALSE, imports |-> imports,
            text |-> writeHeader \o writeImports(imports)
                       \o writeMain(routes, layout, hasLayout, aliasMap, deps)]

(***************************************************************************)
(* The project tree.  tree.go maps a directory to the source of its .go    *)
(* file (NoFile: none); tree.tsx maps the path of a .tsx file to its       *)
(* content.  The content of a .tsx file is the list of its relative import *)
(* specifiers, each already joined with the directory of the importing     *)
(* file (what resolveImportPath computes first).                           *)
(***************************************************************************)
Root == "."

GoDirs == {".", "routes/a", "routes/u.$id", "shared/x", "vendor/v"}

TsxPaths == {"main.tsx", "routes/a/index.tsx", "routes/u.$id/index.tsx", "shared/x/index.tsx"}

\* two route directories whose names differ in the place of the $ only
LinkDirs == {"routes/u.$id", "routes/$u.id"}

Absent == [present |-> FALSE, imports |-> <<>>]

Tsx(imports) == [present |-> TRUE, imports |-> imports]

\* the sources an edit can give to the .go file of a directory
GoChoices(d) ==
  CASE d = "."            -> {NoFile, "one", "main"}
    [] d = "routes/a"     -> {NoFile, "one", "two", "prim", "bad"}
    [] d = "routes/u.$id" -> {NoFile, "one"}
    [] d = "shared/x"     -> {NoFile, "one", "bad"}
    [] OTHER              -> {NoFile, "one"}

\* the contents an edit can give to a .tsx file
TsxChoices(p) ==
  CASE p = "routes/a/index.tsx" ->
         {Absent, Tsx(<<>>), Tsx(<<"shared/x">>), Tsx(<<"main", "shared/x">>), Tsx(<<"shared/x", "main">>)}
    [] p = "routes/u.$id/index.tsx" -> {Absent, Tsx(<<>>), Tsx(<<"shared/x">>)}
    [] p = "shared/x/index.tsx"     -> {Absent, Tsx(<<>>), Tsx(<<"routes/a">>)}
    [] OTHER                        -> {Absent, Tsx(<<>>)}

GoPath(d) == PathJoin(d, "page.go")

InitTree ==
  [go  |-> [d \in GoDirs |-> IF d \in {".", "routes/a", "shared/x"} THEN "one" ELSE NoFile],
   tsx |-> [p \in TsxPaths |->
              CASE p = "routes/a/index.tsx" -> Tsx(<<"shared/x">>)
                [] p = "routes/u.$id/index.tsx" -> Absent
                [] OTHER -> Tsx(<<>>)]]

modulePath == "example.com/app"

\* os.Stat of a .tsx file
TsxExists(t, p) == p \in DOMAIN t.tsx /\ t.tsx[p].present

\* filepath.Glob(dir/*.go) finds something
dirHasGoFile(t, dir) == dir \in DOMAIN t.go /\ t.go[dir] # NoFile

(***************************************************************************)
(* imports.go                                                              *)
(***************************************************************************)
newFSCache == [files |-> EmptyMap, hasGo |-> EmptyMap]

\* an invalidation that evicts nothing
invalidatePathsKeepsAll(c, paths) == c

\* fsCache.invalidatePaths: evict the content of every changed path and the
\* has-.go flag of its directory, keep everything else
invalidatePaths(c, paths) ==
  [files |-> Drop(c.files, paths), hasGo |-> Drop(c.hasGo, {PathDir(p) : p \in paths})]

\* fsCache.readFile: [err, content, cache]
readFile(c, t, absPath) ==
  IF absPath \in DOMAIN c.files THEN [err |-> FALSE, content |-> c.files[absPath], cache |-> c]
  ELSE IF ~TsxExists(t, absPath) THEN [err |-> TRUE, content |-> Absent, cache |-> c]
  ELSE [err |-> FALSE, content |-> t.tsx[absPath],
        cache |-> [c EXCEPT !.files = Put(c.files, absPath, t.tsx[absPath])]]

\* fsCache.dirHasGoFile: [result, cache]
cachedDirHasGoFile(c, t, dir) ==
  IF dir \in DOMAIN c.hasGo THEN [result |-> c.hasGo[dir], cache |-> c]
  ELSE [result |-> dirHasGoFile(t, dir),
        cache |-> [c EXCEPT !.hasGo = Put(c.hasGo, dir, dirHasGoFile(t, dir))]]

\* resolveImportPath: <<>> when nothing matches, else <<path>>
resolveImportPath(t, abs) ==
  IF TsxExists(t, abs \o ".tsx") THEN <<abs \o ".tsx">>
  ELSE IF TsxExists(t, PathJoin(abs, "index.tsx")) THEN <<PathJoin(abs, "index.tsx")>>
  ELSE <<>>

\* walkImports, depth first: todo holds the files still to visit, the imports
\* of the current file in front.  Result: [err, goDirs, cache]
RECURSIVE walkImports(_, _, _, _, _)
walkImports(t, todo, visited, goDirs, c) ==
  IF Len(todo) = 0 THEN [err |-> FALSE, goDirs |-> goDirs, cache |-> c]
  ELSE IF todo[1] \in visited THEN walkImports(t, Tail(todo), visited, goDirs, c)
  ELSE LET rd == readFile(c, t, todo[1])
       IN  IF rd.err THEN [err |-> TRUE, goDirs |-> goDirs, cache |-> c]
           ELSE LET dir   == PathDir(todo[1])
                    hg    == cachedDirHasGoFile(rd.cache, t, dir)
                    specs == rd.content.imports
                    RECURSIVE Resolved(_)
                    Resolved(ss) == IF Len(ss) = 0 THEN <<>>
                                    ELSE resolveImportPath(t, ss[1]) \o Resolved(Tail(ss))
                IN  walkImports(t, Resolved(specs) \o Tail(todo), visited \cup {todo[1]},
                                IF hg.result THEN goDirs \cup {dir} ELSE goDirs, hg.cache)

\* AnalyzeDeps: [err, deps, cache], deps sorted
AnalyzeDeps(t, entryPath, c) ==
  LET w == walkImports(t, <<entryPath>>, {}, {}, c)
  IN  [err |-> w.err, deps |-> IF w.err THEN <<>> ELSE SortStrings(w.goDirs), cache |-> w.cache]

(***************************************************************************)
(* parse.go: the directory walk                                            *)
(***************************************************************************)
\* the sources the parser is run on by itself
ParseOnlyVariants == {"deep", "app", "err", "multi", "slice", "void"}

GoVariants == (UNION {GoChoices(d) : d \in GoDirs} \cup ParseOnlyVariants) \ {NoFile}

\* parseRouteDir for every directory and source of the model, computed once
ParsedSource == [d \in GoDirs \cup LinkDirs |-> [v \in GoVariants |-> parseRouteDir(d, GoSource(v))]]

SourceOk == [v \in GoVariants |-> GoSource(v).ok]

\* the directories filepath.WalkDir skips in ParseDir
Pruned(d) == \E seg \in Range(Split(d, "/")) : seg \in {".rstf", ".git", "node_modules", "vendor"}

\* the directories ParseDir hands to parseRouteDir
WalkedDirs(t) == {d \in DOMAIN t.go : t.go[d] # NoFile /\ ~Pruned(d)}

\* ParseDir fails: some walked file does not parse
ParseDirErr(t) == \E d \in WalkedDirs(t) : ~SourceOk[t.go[d]]

\* ParseDir: the results it can return, each as a table directory -> RouteFile
ParseDir(t) ==
  LET D == {d \in WalkedDirs(t) : ParsedSource[d][t.go[d]] # {Nil}}
  IN  {tbl \in [D -> UNION {ParsedSource[d][t.go[d]] : d \in D}] :
         \A d \in D : tbl[d] \in ParsedSource[d][t.go[d]]}

\* ParseSingleDir: [err, results], results the values it can return
ParseSingleDir(t, d) ==
  IF d \notin DOMAIN t.go \/ t.go[d] = NoFile THEN [err |-> FALSE, results |-> {Nil}]
  ELSE IF ~SourceOk[t.go[d]] THEN [err |-> TRUE, results |-> {Nil}]
  ELSE [err |-> FALSE, results |-> ParsedSource[d][t.go[d]]]

(***************************************************************************)
(* generate.go: the Generator                                              *)
(***************************************************************************)
VARIABLES
  tree,            \* the project sources
  pending,         \* change events not yet handed to Regenerate
  edits,           \* number of edits made so far
  filesByDir,      \* Generator.filesByDir
  files,           \* Generator.files, as the set of its elements
  deps,            \* Generator.deps
  entries,         \* Generator.entries
  prevServerCode,  \* Generator.prevServerCode
  cache,           \* Generator.cache
  disk,            \* the content of .rstf/: path -> text (link target for pkgs/)
  ret,             \* the last call: what it returned and which files it wrote
  server,          \* the dev loop's server process and what the last batch did to it
  watch,           \* the file watcher: the directories, fsnotify's queue, the loop's state
  sidecar,         \* the SSR sidecar: its requests in flight and its modules' server data
  build            \* a full build step by step: its tasks, its maps, its error slot

vars == <<tree, pending, edits, filesByDir, files, deps, entries, prevServerCode, cache, disk, ret, server, watch, sidecar, build>>

gstate == <<filesByDir, files, deps, entries, prevServerCode, cache>>

\* the state outside the generator, and outside the generator and the dev loop
others == <<server, watch, sidecar, build>>

devOthers == <<watch, sidecar, build>>

watchOthers == <<tree, pending, edits, filesByDir, files, deps, entries, prevServerCode, cache,
                 disk, ret, server, sidecar, build>>

sidecarOthers == <<tree, pending, edits, filesByDir, files, deps, entries, prevServerCode, cache,
                   disk, ret, server, watch, build>>

\* no dev loop: no server process, nothing done to it
NoServer == [procs |-> 0, hasGo |-> FALSE, stopped |-> FALSE, started |-> FALSE, invalidated |-> FALSE]

\* no watcher was created
NoWatch == [running |-> FALSE]

\* no sidecar process
NoSidecar == [running |-> FALSE]

\* no build is followed step by step
NoBuild == [pc |-> "none"]

\* discoverTSXRouteDirs: the children of routes/ that hold an index.tsx
discoverTSXRouteDirs(t) ==
  {PathDir(p) : p \in {q \in DOMAIN t.tsx : t.tsx[q].present /\ HasSuffix(q, "/index.tsx")
                                            /\ PathDir(PathDir(q)) = "routes"}}

\* the routes that get a dependency analysis
DepJobs(t, fileDirs) ==
  {d \in fileDirs : IsRouteDir(d) /\ TsxExists(t, PathJoin(d, "index.tsx"))}
    \cup discoverTSXRouteDirs(t)

\* one AnalyzeDeps per job through the shared cache: [err, deps, cache]
RECURSIVE AnalyzeJobs(_, _, _)
AnalyzeJobs(t, jobs, acc) ==
  IF Len(jobs) = 0 THEN acc
  ELSE LET a == AnalyzeDeps(t, PathJoin(jobs[1], "index.tsx"), acc.cache)
       IN  AnalyzeJobs(t, Tail(jobs),
                       [err   |-> acc.err \/ a.err,
                        deps  |-> IF a.err THEN acc.deps ELSE Put(acc.deps, jobs[1], a.deps),
                        cache |-> a.cache])

AnalyzeAll(t, jobs, c) ==
  AnalyzeJobs(t, SortStrings(jobs), [err |-> FALSE, deps |-> EmptyMap, cache |-> c])

\* the orders in which a table's RouteFiles can reach GenerateServer.  Only the
\* relative order of route directories is used there (the others only enter
\* fileMap), so the other directories are put last in one order.
FileOrders(tbl) ==
  LET R == {d \in DOMAIN tbl : IsRouteDir(d)}
      N == SortStrings(DOMAIN tbl \ R)
  IN  {[i \in 1..(Len(o) + Len(N)) |-> IF i <= Len(o) THEN tbl[o[i]] ELSE tbl[N[i - Len(o)]]] :
         o \in Perms(R)}

\* the order in which GenerateServer appends the route directories to its
\* routes slice, before sorting
UnsortedRoutes(fo, ds, dord) ==
  LET fromFiles == SelectSeq([i \in 1..Len(fo) |-> fo[i].Dir], IsRouteDir)
  IN  fromFiles \o SelectSeq(dord, LAMBDA d : d \notin Range(fromFiles) /\ IsRouteDir(d))

\* the pairs <<order of the RouteFiles, order of the range over deps>> a call of
\* GenerateServer can meet, one pair for each order of the routes slice they
\* lead to (the two orders are read nowhere else)
ServerInputs(tbl, ds) ==
  LET all == FileOrders(tbl) \X Perms(DOMAIN ds)
  IN  {CHOOSE x \in all : UnsortedRoutes(x[1], ds, x[2]) = k :
         k \in {UnsortedRoutes(x[1], ds, x[2]) : x \in all}}

\* writeDTSAndRuntime: the files it writes, as a map path -> text
writeDTSAndRuntime(rf) ==
  LET rt == GenerateRuntimeModule(rf, componentPathForDir(rf.Dir))
      d1 == Put(EmptyMap, DTSPath(rf.Dir), GenerateDTS(rf))
  IN  IF rt # "" THEN Put(d1, RuntimePath(rf.Dir), rt) ELSE d1

\* m1 overwritten by m2
Overlay(m1, m2) == [x \in DOMAIN m1 \cup DOMAIN m2 |-> IF x \in DOMAIN m2 THEN m2[x] ELSE m1[x]]

RECURSIVE OverlayAll(_, _)
OverlayAll(m, S) ==
  IF S = {} THEN m
  ELSE LET x == CHOOSE x \in S : TRUE IN OverlayAll(Overlay(m, x), S \ {x})

countRoutes(fileDirs, ds) ==
  Cardinality({d \in fileDirs : IsRouteDir(d)} \cup {d \in DOMAIN ds : IsRouteDir(d)})

\* depsEqual without its length test: a faulty variant that takes a list for
\* equal to any list it is a prefix of, or that is a prefix of it
depsEqualPrefix(a, b) == \A i \in 1..Len(a) : i <= Len(b) => a[i] = b[i]

depsEqualNever(a, b) == FALSE

depsEqual(a, b) == Len(a) = Len(b) /\ \A i \in 1..Len(a) : a[i] = b[i]

Returned(op, err, count, ents, changed, written) ==
  [op |-> op, err |-> err, RouteCount |-> count, Entries |-> ents,
   ServerChanged |-> changed, written |-> written]

Failed(op, written) == Returned(op, TRUE, 0, EmptyMap, FALSE, written)

Init ==
  /\ tree = InitTree
  /\ pending = {}
  /\ edits = 0
  /\ filesByDir = EmptyMap
  /\ files = {}
  /\ deps = EmptyMap
  /\ entries = EmptyMap
  /\ prevServerCode = ""
  /\ cache = newFSCache
  /\ disk = EmptyMap
  /\ ret = Returned("none", FALSE, 0, EmptyMap, FALSE, {})
  /\ server = NoServer
  /\ build = NoBuild
  /\ sidecar = NoSidecar
  /\ watch = NoWatch

(***************************************************************************)
(* Generator.Generate: the full build.                                     *)
(***************************************************************************)
\* the symlinks of the directories with a dynamic segment: link path -> target
Symlinks(dirs) ==
  LET D == {d \in dirs : ContainsChar(d, "$") /\ d # "."}
  IN  [l \in {LinkPath(d) : d \in D} |-> CHOOSE d \in D : LinkPath(d) = l]

\* phase 3 restricted to the routes with a dependency: a faulty variant
EntryFilesWithDeps(ds) ==
  LET R == {r \in DOMAIN ds : IsRouteDir(r) /\ Len(ds[r]) > 0}
  IN  [e \in {EntryPath(r) : r \in R} |->
         LET r == CHOOSE r \in R : EntryPath(r) = e IN GenerateHydrationEntry(r, ds[r])]

\* the hydration entries of phase 3: one per analysed route directory
EntryFiles(ds) ==
  LET R == {r \in DOMAIN ds : IsRouteDir(r)}
  IN  [e \in {EntryPath(r) : r \in R} |->
         LET r == CHOOSE r \in R : EntryPath(r) = e IN GenerateHydrationEntry(r, ds[r])]

EntriesOf(ds) == [r \in {r \in DOMAIN ds : IsRouteDir(r)} |-> EntryPath(r)]

\* phase 1 fails in ParseDir: .rstf/ is already removed, nothing else happened
GenerateParseError ==
  /\ ParseDirErr(tree)
  /\ disk' = EmptyMap
  /\ ret' = Failed("Generate", {})
  /\ UNCHANGED <<tree, pending, edits, gstate>>

\* the end of Generate: phase 2 left disk2 on disk (written2 its files bar the
\* links) and the analysis an, phase 3 writes the entries, phase 4 the text srv
GenerateEnd(tbl, an, disk2, written2, ents, srv) ==
  IF an.err
  THEN [err |-> TRUE, disk |-> disk2, written |-> written2, cache |-> an.cache,
        filesByDir |-> tbl, deps |-> EmptyMap, text |-> ""]
  ELSE IF srv.err
  THEN [err |-> TRUE, disk |-> Overlay(disk2, ents), written |-> written2 \cup DOMAIN ents,
        cache |-> an.cache, filesByDir |-> tbl, deps |-> an.deps, text |-> ""]
  ELSE [err |-> FALSE, disk |-> Put(Overlay(disk2, ents), ServerPath, srv.text),
        written |-> written2 \cup DOMAIN ents \cup {ServerPath}, cache |-> an.cache,
        filesByDir |-> tbl, deps |-> an.deps, text |-> srv.text]

\* phases 2-4 with the parse result tbl and the analysis an of phase 2, the
\* RouteFiles supplied to GenerateServer in the order fo, the deps map ranged
\* over in the order dord: what the call leaves behind
GenerateWith(tbl, an, fo, dord) ==
  GenerateEnd(tbl, an,
              Overlay(OverlayAll(EmptyMap, {writeDTSAndRuntime(tbl[d]) : d \in DOMAIN tbl}),
                      Symlinks(DOMAIN tbl)),
              UNION {DOMAIN writeDTSAndRuntime(tbl[d]) : d \in DOMAIN tbl},
              EntryFiles(an.deps),
              GenerateServer(modulePath, fo, an.deps, dord))

\* the outcomes of a full build of the tree t whose ParseDir succeeds
FullBuilds(t) ==
  UNION {LET an == AnalyzeAll(t, DepJobs(t, DOMAIN tbl), newFSCache)
         IN  {GenerateWith(tbl, an, in[1], in[2]) : in \in ServerInputs(tbl, an.deps)} :
           tbl \in ParseDir(t)}

GenerateRun ==
  /\ ~ParseDirErr(tree)
  /\ \E o \in FullBuilds(tree) :
       /\ disk' = o.disk
       /\ cache' = o.cache
       /\ IF o.err
          THEN /\ ret' = Failed("Generate", o.written)
               /\ UNCHANGED <<filesByDir, files, deps, entries, prevServerCode>>
          ELSE /\ filesByDir' = o.filesByDir
               /\ files' = {o.filesByDir[d] : d \in DOMAIN o.filesByDir}
               /\ deps' = o.deps
               /\ entries' = EntriesOf(o.deps)
               /\ prevServerCode' = o.text
               /\ ret' = Returned("Generate", FALSE, countRoutes(DOMAIN o.filesByDir, o.deps),
                                  EntriesOf(o.deps), FALSE, o.written)
  /\ UNCHANGED <<tree, pending, edits>>

Generate == GenerateParseError \/ GenerateRun

(***************************************************************************)
(* Generator.Regenerate: the incremental build.                            *)
(***************************************************************************)
\* step 3 over the changed directories in the order the range over the
\* goChangedDirs map yields them; res[d] is what ParseSingleDir returns for d.
\* Result: [err, filesByDir, disk, written]
RECURSIVE ReparseDirs(_, _, _, _)
ReparseDirs(t, order, res, acc) ==
  IF Len(order) = 0 THEN acc
  ELSE IF ParseSingleDir(t, order[1]).err THEN [acc EXCEPT !.err = TRUE]
  ELSE IF res[order[1]] # Nil
       THEN ReparseDirs(t, Tail(order), res,
                        [acc EXCEPT !.filesByDir = Put(@, res[order[1]].Dir, res[order[1]]),
                                    !.disk = Overlay(@, writeDTSAndRuntime(res[order[1]])),
                                    !.written = @ \cup DOMAIN writeDTSAndRuntime(res[order[1]])])
       ELSE ReparseDirs(t, Tail(order), res, [acc EXCEPT !.filesByDir = Drop(@, {order[1]})])

\* the values ParseSingleDir can return for each changed directory
ParseChoices(t, dirs) ==
  {res \in [dirs -> UNION {ParseSingleDir(t, d).results : d \in dirs}] :
     \A d \in dirs : res[d] \in ParseSingleDir(t, d).results}

\* step 5 over the changed directories in the order the second range over the
\* goChangedDirs map yields them: the link of a directory with a dynamic
\* segment is removed, and created again when the directory is in the table
RECURSIVE RelinkDirs(_, _, _)
RelinkDirs(dsk, order, fbd) ==
  IF Len(order) = 0 THEN dsk
  ELSE IF ~ContainsChar(order[1], "$") \/ order[1] = "." THEN RelinkDirs(dsk, Tail(order), fbd)
  ELSE IF order[1] \in DOMAIN fbd
       THEN RelinkDirs(Put(Drop(dsk, {LinkPath(order[1])}), LinkPath(order[1]), order[1]),
                       Tail(order), fbd)
       ELSE RelinkDirs(Drop(dsk, {LinkPath(order[1])}), Tail(order), fbd)

\* step 8: the routes whose hydration entry is written again
RewrittenRoutes(oldDeps, oldEntries, newDeps) ==
  {r \in DOMAIN newDeps :
     /\ IsRouteDir(r)
     /\ \/ ~depsEqual(DepsOf(oldDeps, r), newDeps[r])
        \/ r \notin DOMAIN oldEntries}

\* step 9 without the comparison: a faulty variant that always reports a change
serverChangedAlways(serverCode, prev) == TRUE

\* step 9: the fresh server text against the persisted one
serverChanged(serverCode, prev) == serverCode # prev

RegenerateWith(events, order, res) ==
  \E goChangedDirs \in {{PathDir(e.Path) : e \in {x \in events : x.Kind = "go"}}} :
  \E c1 \in {invalidatePaths(cache, {e.Path : e \in events})} :
  \E s3 \in {ReparseDirs(tree, order, res,
                         [err |-> FALSE, filesByDir |-> filesByDir, disk |-> disk, written |-> {}])} :
    IF s3.err
    THEN \* step 3 returns: earlier directories of the loop are already applied
         /\ filesByDir' = s3.filesByDir
         /\ disk' = s3.disk
         /\ cache' = c1
         /\ ret' = Failed("Regenerate", s3.written)
         /\ UNCHANGED <<files, deps, entries, prevServerCode>>
    ELSE
      \E fbd \in {s3.filesByDir} :
      \E links \in Perms(goChangedDirs) :
      \E disk4 \in {RelinkDirs(s3.disk, links, fbd)} :
      \E an \in {AnalyzeAll(tree, DepJobs(tree, DOMAIN fbd), c1)} :
        /\ filesByDir' = fbd
        /\ files' = {fbd[d] : d \in DOMAIN fbd}
        /\ cache' = an.cache
        /\ IF an.err
           THEN /\ disk' = disk4
                /\ ret' = Failed("Regenerate", s3.written)
                /\ UNCHANGED <<deps, entries, prevServerCode>>
           ELSE
             \E rew \in {RewrittenRoutes(deps, entries, an.deps)} :
             \E disk5 \in {Overlay(disk4, [e \in {EntryPath(r) : r \in rew} |-> EntryFiles(an.deps)[e]])} :
             \E wr5 \in {s3.written \cup {EntryPath(r) : r \in rew}} :
             \E newEntries \in {[r \in {r \in DOMAIN an.deps : IsRouteDir(r)} |->
                                   IF r \in rew THEN EntryPath(r) ELSE entries[r]]} :
             \E in \in ServerInputs(fbd, an.deps) :
             \E srv \in {GenerateServer(modulePath, in[1], an.deps, in[2])} :
             \E changed \in {serverChanged(srv.text, prevServerCode)} :
               IF srv.err
               THEN /\ disk' = disk5
                    /\ ret' = Failed("Regenerate", wr5)
                    /\ UNCHANGED <<deps, entries, prevServerCode>>
               ELSE /\ disk' = IF changed THEN Put(disk5, ServerPath, srv.text) ELSE disk5
                    /\ deps' = an.deps
                    /\ entries' = newEntries
                    /\ prevServerCode' = srv.text
                    /\ ret' = Returned("Regenerate", FALSE, countRoutes(DOMAIN fbd, an.deps),
                                       newEntries, changed,
                                       IF changed THEN wr5 \cup {ServerPath} ELSE wr5)

\* the dev loop hands every batch of change events to Regenerate once the
\* initial Generate has run
Regenerate ==
  /\ ret.op # "none"
  /\ pending # {}
  /\ LET goChangedDirs == {PathDir(e.Path) : e \in {x \in pending : x.Kind = "go"}}
     IN  \E order \in Perms(goChangedDirs) : \E res \in ParseChoices(tree, goChangedDirs) :
           RegenerateWith(pending, order, res)
  /\ pending' = {}
  /\ UNCHANGED <<tree, edits>>

(***************************************************************************)
(* The developer edits the sources; the watcher reports each changed file. *)
(***************************************************************************)
ChangeEvent(path, kind) == [Path |-> path, Kind |-> kind]

\* write, create or delete the .go file of directory d
EditGo(d, v) ==
  /\ ret.op # "none"
  /\ edits < MaxEdits
  /\ Cardinality(pending) < MaxBatch
  /\ ~(tree.go[d] = NoFile /\ v = NoFile)
  /\ tree' = [tree EXCEPT !.go[d] = v]
  /\ pending' = pending \cup {ChangeEvent(GoPath(d), "go")}
  /\ edits' = edits + 1
  /\ UNCHANGED <<gstate, disk, ret, others>>

\* write, create or delete the .tsx file p
EditTsx(p, c) ==
  /\ ret.op # "none"
  /\ edits < MaxEdits
  /\ Cardinality(pending) < MaxBatch
  /\ ~(tree.tsx[p] = Absent /\ c = Absent)
  /\ tree' = [tree EXCEPT !.tsx[p] = c]
  /\ pending' = pending \cup {ChangeEvent(p, "tsx")}
  /\ edits' = edits + 1
  /\ UNCHANGED <<gstate, disk, ret, others>>

Next ==
  \/ Generate /\ UNCHANGED others
  \/ Regenerate /\ UNCHANGED others
  \/ \E d \in GoDirs : \E v \in GoChoices(d) : EditGo(d, v)
  \/ \E p \in TsxPaths : \E c \in TsxChoices(p) : EditTsx(p, c)

Spec == Init /\ [][Next]_vars

(***************************************************************************)
(* The dev loop (cmd/rstf/dev.go): the initial build starts the server,    *)
(* every batch of change events goes through handleCodeChange.             *)
(***************************************************************************)
\* handleCodeChange's test after a successful Regenerate: start a server
restartAlways(hasGo, changed) == TRUE

restartNeeded(hasGo, changed) == hasGo \/ changed

\* stopServer kills the process the loop holds, startServer launches one
stopServer(procs) == IF procs > 0 THEN procs - 1 ELSE 0

startServer(procs) == procs + 1

\* handleCodeChange's effect on the server after Regenerate returned r
handleServer(srv, hasGo, r) ==
  LET live == IF hasGo THEN stopServer(srv.procs) ELSE srv.procs
  IN  IF r.err
      THEN [procs |-> IF hasGo THEN startServer(live) ELSE live, hasGo |-> hasGo,
            stopped |-> hasGo, started |-> hasGo, invalidated |-> FALSE]
      ELSE IF restartNeeded(hasGo, r.ServerChanged)
      THEN [procs |-> startServer(live), hasGo |-> hasGo,
            stopped |-> hasGo, started |-> TRUE, invalidated |-> FALSE]
      ELSE [procs |-> live, hasGo |-> hasGo,
            stopped |-> hasGo, started |-> FALSE, invalidated |-> TRUE]

\* runDev up to its event loop: a failed Generate exits, otherwise the server starts
runDev ==
  /\ ret.op = "none"
  /\ Generate
  /\ server' = IF ret'.err THEN NoServer
               ELSE [NoServer EXCEPT !.procs = startServer(0), !.started = TRUE]
  /\ UNCHANGED devOthers

\* one batch of the event loop: every event of the model is a go or tsx event
handleCodeChange ==
  /\ server.procs > 0
  /\ Regenerate
  /\ server' = handleServer(server, \E e \in pending : e.Kind = "go", ret')
  /\ UNCHANGED devOthers

NextDev ==
  \/ runDev
  \/ handleCodeChange
  \/ \E d \in GoDirs : \E v \in GoChoices(d) : EditGo(d, v)
  \/ \E p \in TsxPaths : \E c \in TsxChoices(p) : EditTsx(p, c)

SpecDev == Init /\ [][NextDev]_vars

(***************************************************************************)
(* GenerateServer on its own: any table of RouteFiles and any dependency   *)
(* map, the call made with one of the orders its inputs can arrive in.     *)
(***************************************************************************)
ServerDirs == {".", "routes/a.b", "routes/a/b", "shared/x"}

PackageNames == {"app", "app2", "main"}

\* the RouteFile parseRouteDir returns for a one-struct handler file of
\* directory d whose package clause names pkg
RouteFileOf(d, pkg) == CHOOSE rf \in parseRouteDir(d, [GoSource("one") EXCEPT !.pkg = pkg]) : TRUE

ServerTables ==
  UNION {[D -> PackageNames] : D \in SUBSET ServerDirs}

\* the dependency maps Generate can hand over with a table over fileDirs: a
\* key is a child of routes/ or a route directory of the table; the list of a
\* route holds the route itself when its directory has a .go file, which it
\* has when it is in the table, and shared/x or not
ServerDepMaps(fileDirs) ==
  LET R == {d \in ServerDirs : IsRouteDir(d) /\ (PathDir(d) = "routes" \/ d \in fileDirs)}
      Lists(r) == {own \o dep : own \in (IF r \in fileDirs THEN {<<r>>} ELSE {<<>>, <<r>>}),
                                dep \in {<<>>, <<"shared/x">>}}
  IN  UNION {{m \in [K -> UNION {Lists(r) : r \in K}] : \A r \in K : m[r] \in Lists(r)} :
               K \in SUBSET R}

InitServer ==
  /\ tree = InitTree
  /\ pending = {}
  /\ edits = 0
  /\ \E pk \in ServerTables : filesByDir = [d \in DOMAIN pk |-> RouteFileOf(d, pk[d])]
  /\ files = {filesByDir[d] : d \in DOMAIN filesByDir}
  /\ deps \in ServerDepMaps(DOMAIN filesByDir)
  /\ entries = EmptyMap
  /\ prevServerCode = ""
  /\ cache = newFSCache
  /\ disk = EmptyMap
  /\ ret = [op |-> "none", err |-> FALSE, text |-> "", imports |-> <<>>]
  /\ server = NoServer
  /\ build = NoBuild
  /\ sidecar = NoSidecar
  /\ watch = NoWatch

\* one call of GenerateServer; ret keeps what it returned and the import list
\* the text was written from
ServerCall ==
  /\ \E in \in ServerInputs(filesByDir, deps) :
       LET srv == GenerateServer(modulePath, in[1], deps, in[2])
       IN  ret' = [op |-> "GenerateServer", err |-> srv.err, text |-> srv.text,
                   imports |-> srv.imports]
  /\ UNCHANGED <<tree, pending, edits, gstate, disk, others>>

NextServer == ServerCall

SpecServer == InitServer /\ [][NextServer]_vars

(***************************************************************************)
(* AnalyzeDeps on its own, one visited file per step: a project whose      *)
(* component files hold the import specifiers as they are written, cycles  *)
(* and self-imports among them, walked from an entry component.            *)
(***************************************************************************)
MaxWalks == 2

\* filepath.Clean on the segments of a relative path
RECURSIVE CleanSegs(_, _)
CleanSegs(segs, out) ==
  IF Len(segs) = 0 THEN out
  ELSE IF segs[1] \in {".", ""} THEN CleanSegs(Tail(segs), out)
  ELSE IF segs[1] = ".." /\ Len(out) > 0 /\ out[Len(out)] # ".."
       THEN CleanSegs(Tail(segs), SubSeq(out, 1, Len(out) - 1))
       ELSE CleanSegs(Tail(segs), Append(out, segs[1]))

\* filepath.Join(baseDir, specifier)
JoinClean(baseDir, specifier) ==
  LET out == CleanSegs(Split(baseDir \o "/" \o specifier, "/"), <<>>)
  IN  IF Len(out) = 0 THEN "." ELSE Join(out, "/")

\* extractLocalImports: of the specifiers that follow a "from", in the order
\* of the text, those importRe matches: "./" or "../" and one more character
extractAnyImports(content) == content

RECURSIVE extractLocalImports(_)
extractLocalImports(content) ==
  IF Len(content) = 0 THEN <<>>
  ELSE (IF \E p \in {"./", "../"} : HasPrefix(content[1], p) /\ Len(content[1]) > Len(p)
        THEN <<content[1]>> ELSE <<>>) \o extractLocalImports(Tail(content))

\* visited[absFilePath]
seenNever(visited, absFilePath) == FALSE

seen(visited, absFilePath) == absFilePath \in visited

WalkDirs == {".", "routes/a", "shared/x"}

WalkPaths == {"main.tsx", "routes/a/index.tsx", "routes/a/b.tsx", "shared/x/index.tsx", "shared/x/c.tsx"}

WalkEntries == {"routes/a/index.tsx", "shared/x/index.tsx"}

\* the specifiers a component file of the walked project can hold
WalkChoices(p) ==
  CASE p = "routes/a/index.tsx" ->
         {Tsx(<<>>), Tsx(<<"./missing", "./b">>), Tsx(<<"b", "react">>), Tsx(<<"../../shared/x", "./b">>),
          Tsx(<<"../../main", "./missing">>)}
    [] p = "routes/a/b.tsx" ->
         {Tsx(<<>>), Tsx(<<"./index">>), Tsx(<<"../../shared/x/c", "./index">>)}
    [] p = "shared/x/index.tsx" ->
         {Absent, Tsx(<<"./c">>), Tsx(<<"../../routes/a">>)}
    [] p = "shared/x/c.tsx" ->
         {Absent, Tsx(<<"./c">>), Tsx(<<"./index", "../x/c">>)}
    [] OTHER -> {Tsx(<<>>)}

\* every specifier a component file of the walked project holds
WalkSpecifiers ==
  UNION {Range(c.imports) : c \in UNION {WalkChoices(p) : p \in WalkPaths}}

\* filepath.Join for every directory and specifier of the walked project,
\* computed once
JoinedPath == [d \in WalkDirs |-> [s \in WalkSpecifiers |-> JoinClean(d, s)]]

\* the loop of walkImports over the specifiers: the files they resolve to
RECURSIVE resolveAll(_, _, _)
resolveAll(t, dir, specifiers) ==
  IF Len(specifiers) = 0 THEN <<>>
  ELSE resolveImportPath(t, JoinedPath[dir][specifiers[1]]) \o resolveAll(t, dir, Tail(specifiers))

\* a directory holds no .go file, one with a handler, or, for shared/x, one
\* without any handler
WalkTrees ==
  {[go |-> g, tsx |-> x] :
     g \in {h \in [WalkDirs -> {NoFile, "one", "prim"}] :
              \A d \in WalkDirs : h[d] = "prim" => d = "shared/x"},
     x \in {f \in [WalkPaths -> UNION {WalkChoices(p) : p \in WalkPaths}] :
              \A p \in WalkPaths : f[p] \in WalkChoices(p)}}

\* AnalyzeDeps entered for the n-th time: nothing visited, the entry file to walk
Walking(entryPath, n) ==
  [op |-> "walkImports", entry |-> entryPath, walks |-> n, todo |-> <<entryPath>>,
   visited |-> {}, goDirs |-> {}, expanded |-> <<>>, err |-> FALSE, deps |-> <<>>]

InitWalk ==
  /\ tree = InitTree
  /\ pending = {}
  /\ edits = 0
  /\ filesByDir = EmptyMap
  /\ files = {}
  /\ deps = EmptyMap
  /\ entries = EmptyMap
  /\ prevServerCode = ""
  /\ cache = newFSCache
  /\ disk = EmptyMap
  /\ ret = [Walking("", 0) EXCEPT !.op = "none", !.todo = <<>>]
  /\ server = NoServer
  /\ build = NoBuild
  /\ sidecar = NoSidecar
  /\ watch = NoWatch

\* one call of walkImports up to its loop, on the walk r and the cache c:
\* return at once on a visited file, else mark it, read it, record its
\* directory, and queue what it imports in front of what the callers still
\* have to visit; a read error ends the walk.  Result: [ret, cache]
walkImportsCall(t, r, c, f, rd, hg) ==
  IF seen(r.visited, f) THEN [ret |-> [r EXCEPT !.todo = Tail(r.todo)], cache |-> c]
  ELSE IF rd.err
  THEN [ret |-> [r EXCEPT !.op = "AnalyzeDeps", !.err = TRUE, !.todo = <<>>,
                          !.visited = r.visited \cup {f}],
        cache |-> c]
  ELSE [ret |-> [r EXCEPT
                   !.visited = r.visited \cup {f},
                   !.expanded = Append(r.expanded, f),
                   !.goDirs = IF hg.result THEN r.goDirs \cup {PathDir(f)} ELSE r.goDirs,
                   !.todo = resolveAll(t, PathDir(f), extractLocalImports(rd.content.imports))
                            \o Tail(r.todo)],
        cache |-> hg.cache]

WalkStep ==
  /\ ret.op = "walkImports"
  /\ Len(ret.todo) > 0
  /\ \E o \in {walkImportsCall(tree, ret, cache, ret.todo[1],
                                 readFile(cache, tree, ret.todo[1]),
                                 cachedDirHasGoFile(readFile(cache, tree, ret.todo[1]).cache,
                                                    tree, PathDir(ret.todo[1])))} :
       /\ ret' = o.ret
       /\ cache' = o.cache
  /\ UNCHANGED <<tree, pending, edits, filesByDir, files, deps, entries, prevServerCode, disk, others>>

\* the walk is over: AnalyzeDeps sorts the directories and returns them
WalkReturn ==
  /\ ret.op = "walkImports"
  /\ Len(ret.todo) = 0
  /\ ret' = [ret EXCEPT !.op = "AnalyzeDeps", !.deps = SortStrings(ret.goDirs)]
  /\ UNCHANGED <<tree, pending, edits, gstate, disk, others>>

\* a call of AnalyzeDeps: the first one finds the project as it is on disk,
\* the next ones the same project and the cache the calls before them filled
WalkStart ==
  /\ ret.op \in {"none", "AnalyzeDeps"}
  /\ ret.walks < MaxWalks
  /\ IF ret.walks = 0 THEN tree' \in WalkTrees ELSE tree' = tree
  /\ \E e \in WalkEntries : ret' = Walking(e, ret.walks + 1)
  /\ UNCHANGED <<pending, edits, gstate, disk, others>>

NextWalk == WalkStep \/ WalkReturn \/ WalkStart

SpecWalk == InitWalk /\ [][NextWalk]_vars

\* a call that can take a step is not suspended for ever
SpecWalkFair == SpecWalk /\ WF_vars(WalkStep) /\ WF_vars(WalkReturn)

(***************************************************************************)
(* The parser on its own: ParseDir and ParseSingleDir called on a project  *)
(* whose directories hold any of the sources.                              *)
(***************************************************************************)
\* the sources the .go file of a directory of the parsed project can hold
ParseChoicesOf(d) ==
  CASE d = "."        -> {NoFile, "one", "app"}
    [] d = "routes/a" -> {NoFile, "deep", "two", "err", "prim", "multi", "slice", "void", "bad"}
    [] d = "shared/x" -> {NoFile, "two", "app"}
    [] OTHER          -> {NoFile, "one"}

ParseTrees ==
  {[go |-> g, tsx |-> InitTree.tsx] :
     g \in {h \in [GoDirs -> GoVariants \cup {NoFile}] : \A d \in GoDirs : h[d] \in ParseChoicesOf(d)}}

NoResult == [op |-> "none", dir |-> "", err |-> FALSE, table |-> EmptyMap, rf |-> Nil]

InitParse ==
  /\ tree \in ParseTrees
  /\ pending = {}
  /\ edits = 0
  /\ filesByDir = EmptyMap
  /\ files = {}
  /\ deps = EmptyMap
  /\ entries = EmptyMap
  /\ prevServerCode = ""
  /\ cache = newFSCache
  /\ disk = EmptyMap
  /\ ret = NoResult
  /\ server = NoServer
  /\ build = NoBuild
  /\ sidecar = NoSidecar
  /\ watch = NoWatch

\* ParseDir(root): an error, or one of the tables it can return
ParseDirCall ==
  /\ IF ParseDirErr(tree)
     THEN ret' = [NoResult EXCEPT !.op = "ParseDir", !.err = TRUE]
     ELSE \E tbl \in ParseDir(tree) : ret' = [NoResult EXCEPT !.op = "ParseDir", !.table = tbl]
  /\ UNCHANGED <<tree, pending, edits, gstate, disk, others>>

\* ParseSingleDir(root, d) for a directory d of the project
ParseSingleDirCall ==
  /\ \E d \in DOMAIN tree.go :
       \E r \in {ParseSingleDir(tree, d)} :
         \E rf \in r.results :
           ret' = [NoResult EXCEPT !.op = "ParseSingleDir", !.dir = d, !.err = r.err, !.rf = rf]
  /\ UNCHANGED <<tree, pending, edits, gstate, disk, others>>

NextParse == ParseDirCall \/ ParseSingleDirCall

SpecParse == InitParse /\ [][NextParse]_vars

(***************************************************************************)
(* Properties of Regenerate and Generate, stated over Spec.                *)
(***************************************************************************)
\* a step of Regenerate: the only action that empties the pending events
RegenerateStep == pending # {} /\ pending' = {}

\* a step of Generate: the only action that leaves edits and pending alone
GenerateStep == edits' = edits /\ pending' = pending /\ ret'.op = "Generate"

\* the full builds of the current tree that succeed
GoodBuilds == IF ParseDirErr(tree) THEN {} ELSE {o \in FullBuilds(tree) : ~o.err}

\* the last call was a Regenerate that succeeded and no edit came after it
Regenerated == ret.op = "Regenerate" /\ ~ret.err /\ pending = {}

\* path p holds the same thing before and after the step
SameFile(p) ==
  /\ p \in DOMAIN disk <=> p \in DOMAIN disk'
  /\ p \in DOMAIN disk => disk'[p] = disk[p]

\* C1: after an edit and the Regenerate that follows it, the parsed-file table
\* and the dependency map equal those of a full build of the tree as it is now,
\* and the persisted server text is the text that full build writes.
C1_IncrementalEqualsFull ==
  (Regenerated /\ GoodBuilds # {}) =>
    \E o \in GoodBuilds :
      /\ filesByDir = o.filesByDir
      /\ deps = o.deps
      /\ prevServerCode = o.text

\* C2: a Regenerate that returns an error leaves the parsed-file table, the
\* files list, the dependency map, the entries map and the persisted server
\* text as they were before the call.
C2_ErrorKeepsState ==
  [][(RegenerateStep /\ ret'.err) =>
       UNCHANGED <<filesByDir, files, deps, entries, prevServerCode>>]_vars

\* C3: after an edit and the successful Regenerate that follows it, the
\* generated files on disk and their contents are those a full build of the
\* tree as it is now writes, with nothing left over.
C3_DiskEqualsFull ==
  (Regenerated /\ GoodBuilds # {}) => \E o \in GoodBuilds : disk = o.disk

\* C4: Regenerate writes the server entry file exactly when the fresh server
\* text differs from the persisted one, ServerChanged is true in exactly those
\* calls, and the file then holds the fresh text.
C4_ServerWrittenIffChanged ==
  [][RegenerateStep =>
       /\ ServerPath \in ret'.written <=> (~ret'.err /\ prevServerCode' # prevServerCode)
       /\ ret'.ServerChanged <=> ServerPath \in ret'.written
       /\ IF ServerPath \in ret'.written
          THEN disk'[ServerPath] = prevServerCode'
          ELSE SameFile(ServerPath)]_vars

\* a Regenerate succeeded, found the same server text as before and wrote nothing
C4_Witness ==
  /\ Regenerated
  /\ ~ret.ServerChanged
  /\ ServerPath \notin ret.written
  /\ ServerPath \in DOMAIN disk
  /\ disk[ServerPath] = prevServerCode

\* C5: for every route a successful Regenerate analysed, the hydration entry is
\* written again exactly when the fresh dependency list differs from the
\* persisted one or no entry path was recorded; otherwise the file is left
\* alone and Entries keeps the recorded path.
C5_EntryRewrittenIffDepsChanged ==
  [][(RegenerateStep /\ ~ret'.err) =>
       /\ DOMAIN ret'.Entries = {r \in DOMAIN deps' : IsRouteDir(r)}
       /\ \A r \in DOMAIN ret'.Entries :
            IF DepsOf(deps, r) # deps'[r] \/ r \notin DOMAIN entries
            THEN /\ EntryPath(r) \in ret'.written
                 /\ disk'[EntryPath(r)] = GenerateHydrationEntry(r, deps'[r])
                 /\ ret'.Entries[r] = EntryPath(r)
            ELSE /\ EntryPath(r) \notin ret'.written
                 /\ SameFile(EntryPath(r))
                 /\ ret'.Entries[r] = entries[r]]_vars

\* a Regenerate succeeded that wrote the entry of one route and kept the entry
\* of another route whose dependencies did not change
C5_Witness ==
  /\ Regenerated
  /\ \E r \in DOMAIN ret.Entries : EntryPath(r) \in ret.written
  /\ \E r \in DOMAIN ret.Entries : EntryPath(r) \notin ret.written /\ EntryPath(r) \in DOMAIN disk

\* C6: Regenerate writes the type declaration file and the runtime module of a
\* re-parsed directory only if the fresh text differs from the text the file
\* held before.
C6_TypesWrittenOnlyIfChanged ==
  [][RegenerateStep =>
       \A d \in GoDirs : \A p \in {DTSPath(d), RuntimePath(d)} :
         p \in ret'.written => (p \notin DOMAIN disk \/ disk[p] # disk'[p])]_vars

\* C7: a Regenerate that returns an error leaves every generated file on disk
\* as it was before the call.
C7_ErrorKeepsDisk ==
  [][(RegenerateStep /\ ret'.err) => disk' = disk]_vars

\* C8: a full Generate that follows a successful full Generate on the same
\* tree leaves every generated file with the content it already had.
C8_GenerateTwiceSame ==
  [][(GenerateStep /\ ret.op = "Generate" /\ ~ret.err /\ pending = {} /\ ~ret'.err) =>
       disk' = disk]_vars

(***************************************************************************)
(* Properties of GenerateServer, stated over SpecServer.                   *)
(***************************************************************************)
\* C9: the text GenerateServer returned is the text it returns for every
\* other order of the same RouteFiles and every other iteration order of the
\* same dependency map.
C9_ServerTextOrderFree ==
  ret.op = "GenerateServer" =>
    \A in \in ServerInputs(filesByDir, deps) :
      LET srv == GenerateServer(modulePath, in[1], deps, in[2])
      IN  srv.err = ret.err /\ srv.text = ret.text

\* C10: in the import list of the generated server entry, no two imported
\* directories have the same alias.
C10_AliasesDistinct ==
  (ret.op = "GenerateServer" /\ ~ret.err) =>
    \A i, j \in 1..Len(ret.imports) :
      i # j => ret.imports[i].Alias # ret.imports[j].Alias

(***************************************************************************)
(* Properties of AnalyzeDeps, stated over SpecWalk.                        *)
(***************************************************************************)
\* no element of the sequence occurs twice
NoDuplicates(s) == \A i, j \in 1..Len(s) : s[i] = s[j] => i = j

\* the walk of the last call read and expanded each file at most once, and
\* what it returned names each directory at most once
WalkedOnce == NoDuplicates(ret.expanded) /\ NoDuplicates(ret.deps)

\* the files p imports: its relative specifiers that resolve, each to the
\* first of specifier.tsx and specifier/index.tsx that exists
ImportsOf(t, p) ==
  {q \in DOMAIN t.tsx :
     \E i \in 1..Len(t.tsx[p].imports) :
       LET s   == t.tsx[p].imports[i]
           abs == JoinedPath[PathDir(p)][s]
       IN  /\ (HasPrefix(s, "./") \/ HasPrefix(s, "../"))
           /\ t.tsx[q].present
           /\ \/ q = abs \o ".tsx"
              \/ q = abs \o "/index.tsx" /\ ~TsxExists(t, abs \o ".tsx")}

\* the files reachable from p within n imports
RECURSIVE ReachableIn(_, _, _)
ReachableIn(t, S, n) ==
  IF n = 0 THEN S ELSE ReachableIn(t, S \cup UNION {ImportsOf(t, p) : p \in S}, n - 1)

Reachable(t, p) == ReachableIn(t, {p}, Cardinality(DOMAIN t.tsx))

\* C11: AnalyzeDeps terminates on every finite import graph, cycles included:
\* every walk that starts returns, having read and expanded each file at most
\* once, and its result names each directory at most once.
C11_WalkTerminates == []WalkedOnce /\ ((ret.op = "walkImports") ~> (ret.op = "AnalyzeDeps"))

\* a walk over a cycle returned: two expanded files import each other, or one
\* imports itself
C11_Witness ==
  /\ ret.op = "AnalyzeDeps" /\ ~ret.err
  /\ \E i, j \in 1..Len(ret.expanded) :
       /\ ret.expanded[j] \in ImportsOf(tree, ret.expanded[i])
       /\ ret.expanded[i] \in ImportsOf(tree, ret.expanded[j])

\* the last call returned a dependency list
WalkReturned == ret.op = "AnalyzeDeps" /\ ~ret.err

\* the directories of the files reachable from p that hold a .go file
ReachableGoDirs(t, p) == {d \in {PathDir(q) : q \in Reachable(t, p)} : dirHasGoFile(t, d)}

Sorted(s) == \A i \in 1..(Len(s) - 1) : StrLess(s[i], s[i + 1])

\* C13: the list AnalyzeDeps returns never contains the root layout directory
\* ".", whatever the import closure of the route reaches, and it is sorted and
\* free of duplicates.
C13_NoLayoutSortedUnique ==
  WalkReturned => "." \notin Range(ret.deps) /\ Sorted(ret.deps) /\ NoDuplicates(ret.deps)

(***************************************************************************)
(* Properties of the parser, stated over SpecParse.                        *)
(***************************************************************************)
\* the source of directory d of the project
SourceOf(d) == GoSource(tree.go[d])

\* the struct types a source declares
DeclaredStructs(src) == {src.decls[i].name : i \in {j \in 1..Len(src.decls) : src.decls[j].kind = "type"}}

\* the types named by the fields of struct n that a StructDef records: the
\* exported fields without a json:"-" tag, of type T, []T or *T
FieldTypes(src, n) ==
  {f.type.name :
     f \in {g \in UNION {Range(src.decls[i].fields) :
                           i \in {j \in 1..Len(src.decls) :
                                    src.decls[j].kind = "type" /\ src.decls[j].name = n}} :
              /\ IsExported(g.name)
              /\ jsonTagName(g.tag) # "-"
              /\ g.type.form \in {"ident", "slice", "star"}}}

\* the declared structs reachable from the names S within n field references
RECURSIVE StructsWithin(_, _, _)
StructsWithin(src, S, n) ==
  IF n = 0 THEN S \cap DeclaredStructs(src)
  ELSE StructsWithin(src, S \cup UNION {FieldTypes(src, m) : m \in S \cap DeclaredStructs(src)}, n - 1)

\* the return types of the handlers a RouteFile records
ReturnTypes(rf) == {rf.Funcs[i].ReturnType : i \in 1..Len(rf.Funcs)}

\* the last call was a ParseDir that returned a table
Parsed == ret.op = "ParseDir" /\ ~ret.err

\* C14: the type list of a RouteFile holds exactly the locally declared
\* structs reachable from the return types of its handlers through field
\* types, at any depth and through cyclic references, each once; a declaration
\* nothing refers to is left out.
C14_StructsAreReachable ==
  Parsed =>
    \A d \in DOMAIN ret.table :
      LET rf == ret.table[d]
      IN  /\ {rf.Structs[i].Name : i \in 1..Len(rf.Structs)}
               = StructsWithin(SourceOf(d), ReturnTypes(rf), Cardinality(DeclaredStructs(SourceOf(d))))
          /\ \A i, j \in 1..Len(rf.Structs) : rf.Structs[i].Name = rf.Structs[j].Name => i = j

\* a directory whose structs refer to each other in a cycle, two references
\* away from the return type, was parsed: three structs listed, three left out
C14_Witness ==
  /\ Parsed
  /\ "routes/a" \in DOMAIN ret.table
  /\ tree.go["routes/a"] = "deep"
  /\ {ret.table["routes/a"].Structs[i].Name : i \in 1..3} = {"ServerData", "Post", "Comment"}
  /\ Len(ret.table["routes/a"].Structs) = 3

\* C15: for every directory d of a project, ParseSingleDir(root, d) returns
\* what ParseDir(root) produces for d, and nil exactly when ParseDir produces
\* no RouteFile for d.
C15_SingleDirEqualsFullWalk ==
  (ret.op = "ParseSingleDir" /\ ~ParseDirErr(tree)) =>
    /\ ~ret.err
    /\ IF ret.rf = Nil
       THEN \A tbl \in ParseDir(tree) : ret.dir \notin DOMAIN tbl
       ELSE \E tbl \in ParseDir(tree) : ret.dir \in DOMAIN tbl /\ tbl[ret.dir] = ret.rf

\* the functions of a source that carry a handler name
HandlerNamed(src) ==
  {fn \in Range(src.decls) : fn.kind = "func" /\ ~fn.recv /\ fn.name \in routeFuncNames}

\* the source declares the startup hook: func App(app *<pkg>.App)
HasStartupHook(src) ==
  \E fn \in Range(src.decls) :
    /\ fn.kind = "func" /\ fn.name = "App"
    /\ Len(fn.params) = 1 /\ fn.params[1] = Ty("starsel", "App")
    /\ Len(fn.results) = 0

\* C16: a directory that declares a startup hook and no handler still yields
\* a RouteFile; a directory yields none only if it declares neither a handler
\* nor a hook.
C16_HookOnlyDirHasRouteFile ==
  Parsed => \A d \in WalkedDirs(tree) : HasStartupHook(SourceOf(d)) => d \in DOMAIN ret.table

\* the function returns exactly one value, of a struct type the directory
\* declares (or a pointer to one)
ReturnsLocalStruct(src, fn) ==
  /\ Len(fn.results) = 1
  /\ fn.results[1].form \in {"ident", "star"}
  /\ fn.results[1].name \in DeclaredStructs(src)

\* C17: a function with a handler name is recorded as a handler only if it
\* returns exactly one value of a locally declared named aggregate type (no
\* primitive, no slice); any other is left out without an error and without
\* effect on the rest of the parse.
C17_HandlerReturnsLocalStruct ==
  Parsed =>
    \A d \in DOMAIN ret.table :
      \A fn \in HandlerNamed(SourceOf(d)) :
        (\E i \in 1..Len(ret.table[d].Funcs) : ret.table[d].Funcs[i].Name = fn.name)
          => ReturnsLocalStruct(SourceOf(d), fn)

(***************************************************************************)
(* Further properties of Generate and Regenerate, stated over Spec.        *)
(***************************************************************************)
\* the layout the step hands to GenerateServer declares package main: the
\* root source a full build parses, the root RouteFile of the table an
\* incremental build has updated
LayoutIsMainInStep ==
  \/ GenerateStep /\ tree.go["."] = "main"
  \/ RegenerateStep /\ "." \in DOMAIN filesByDir' /\ filesByDir'["."].Package = "main"

\* C18: when the root layout declares package main, generation, full or
\* incremental, fails with an error and does not write the server entry file.
C18_MainLayoutFails ==
  [][LayoutIsMainInStep => ret'.err /\ ServerPath \notin ret'.written]_vars

\* an incremental build of a project that parses, analyses, and whose layout
\* declares package main has failed; the server file of the build before it
\* is still the one on disk
C18_Witness ==
  /\ ret.op = "Regenerate" /\ ret.err
  /\ ~ParseDirErr(tree)
  /\ "." \in DOMAIN filesByDir /\ filesByDir["."].Package = "main"
  /\ ServerPath \in DOMAIN disk /\ disk[ServerPath] = prevServerCode

\* the route directories a project can have
RouteDirs == {r \in GoDirs \cup {PathDir(p) : p \in TsxPaths} : IsRouteDir(r)}

\* route r has a hydration entry after the step: in the Entries map of the
\* result and as a file below entries/
HasEntryAfter(r) == r \in DOMAIN ret'.Entries /\ EntryPath(r) \in DOMAIN disk'

HasNoEntryAfter(r) == r \notin DOMAIN ret'.Entries /\ EntryPath(r) \notin DOMAIN disk'

\* C19 as stated: after a full build a route has a hydration entry if and
\* only if it has at least one server-side dependency directory.
C19_EntryIffHasDeps ==
  [][(GenerateStep /\ ~ret'.err) =>
       \A r \in RouteDirs :
         IF r \in DOMAIN deps' /\ Len(deps'[r]) > 0 THEN HasEntryAfter(r) ELSE HasNoEntryAfter(r)]_vars

\* C19, amended: after a full build a route has a hydration entry if and only
\* if it has an index.tsx and is a child of routes/ or a route directory with
\* a RouteFile, whether or not it has a server-side dependency directory.
C19_EntryIffAnalysed ==
  [][(GenerateStep /\ ~ret'.err) =>
       \A r \in RouteDirs :
         IF /\ TsxExists(tree, PathJoin(r, "index.tsx"))
            /\ (PathDir(r) = "routes" \/ r \in DOMAIN filesByDir')
         THEN HasEntryAfter(r) ELSE HasNoEntryAfter(r)]_vars

\* a full build gave an entry to a route without any dependency directory
C19_Witness ==
  /\ ret.op = "Generate" /\ ~ret.err
  /\ "routes/u.$id" \in DOMAIN deps /\ deps["routes/u.$id"] = <<>>
  /\ "routes/u.$id" \in DOMAIN ret.Entries
  /\ EntryPath("routes/u.$id") \in DOMAIN disk

\* the component of route r lists the same imports as when the generator last
\* read it, in another order, and the change has been reported
ImportsReordered(r) ==
  LET p == PathJoin(r, "index.tsx")
  IN  /\ ChangeEvent(p, "tsx") \in pending
      /\ p \in DOMAIN cache.files /\ cache.files[p].present /\ TsxExists(tree, p)
      /\ cache.files[p].imports # tree.tsx[p].imports
      /\ Len(cache.files[p].imports) = Len(tree.tsx[p].imports)
      /\ Range(cache.files[p].imports) = Range(tree.tsx[p].imports)

\* the step is a Regenerate that succeeds, for a route whose imports were
\* only reordered and whose set of dependency directories stays the same
ReorderRegenerated(r) ==
  /\ RegenerateStep /\ ~ret'.err
  /\ ImportsReordered(r)
  /\ r \in DOMAIN deps /\ r \in DOMAIN deps' /\ r \in DOMAIN entries
  /\ Range(deps[r]) = Range(deps'[r])

\* C20 as stated: reordering the imports of a route's component without
\* changing the set of dependency directories makes Regenerate write the
\* hydration entry of the route again.
C20_ReorderRewritesEntry ==
  [][\A r \in RouteDirs : ReorderRegenerated(r) => EntryPath(r) \in ret'.written]_vars

\* C20, amended: reordering the imports of a route's component without
\* changing the set of dependency directories leaves the hydration entry of
\* the route unwritten: the dependency lists are sorted and compare equal.
C20_ReorderKeepsEntry ==
  [][\A r \in RouteDirs :
       ReorderRegenerated(r) =>
         /\ deps'[r] = deps[r]
         /\ EntryPath(r) \notin ret'.written
         /\ ret'.Entries[r] = entries[r]]_vars

\* only routes/a/index.tsx differs from the initial project, after two edits
\* it imports shared/x before main, and the Regenerate that followed the
\* second wrote nothing: the first had left main before shared/x
C20_Witness ==
  /\ ret.op = "Regenerate" /\ ~ret.err /\ pending = {} /\ edits = 2
  /\ tree.go = InitTree.go
  /\ \A p \in TsxPaths \ {"routes/a/index.tsx"} : tree.tsx[p] = InitTree.tsx[p]
  /\ tree.tsx["routes/a/index.tsx"] = Tsx(<<"shared/x", "main">>)
  /\ deps["routes/a"] = <<".", "routes/a", "shared/x">>
  /\ ret.written = {}

(***************************************************************************)
(* Properties of the dev loop, stated over SpecDev.                        *)
(***************************************************************************)
\* handleCodeChange takes a batch that holds no go event
TsxOnlyBatch == pending # {} /\ pending' = {} /\ \A e \in pending : e.Kind = "tsx"

\* C21: on a batch of .tsx changes only, a server is started only if Regenerate
\* succeeded and reported ServerChanged; otherwise the running server process is
\* neither stopped nor replaced, and when Regenerate succeeded the sidecar's
\* module cache is invalidated (and it is invalidated in no other case).
C21_TsxRestartOnlyIfServerChanged ==
  [][TsxOnlyBatch =>
       /\ server'.started => (~ret'.err /\ ret'.ServerChanged)
       /\ ~server'.started =>
            /\ server'.procs = server.procs
            /\ ~server'.stopped
            /\ ~ret'.err => server'.invalidated
       /\ server'.invalidated => (~server'.started /\ ~ret'.err)]_vars

\* a .tsx-only batch changed the server entry, and a server was started for it
C21_Witness ==
  /\ ret.op = "Regenerate" /\ ~ret.err /\ ret.ServerChanged
  /\ ~server.hasGo /\ server.started

(***************************************************************************)
(* The file watcher (internal/watcher/watcher.go): fsnotify queues an      *)
(* event for every change in a directory of its watch list, the loop       *)
(* debounces the relevant ones and hands them to onChange.                 *)
(***************************************************************************)
MaxFsOps == 3

\* the directories present when Start walks the tree, and those created later
StartDirs == {".", "routes", ".rstf", "node_modules", "node_modules/pkg"}

NewDirs == {"lib", ".tmp"}

WatchDirs == StartDirs \cup NewDirs

WatchFiles == {"a.go", ".h.go", "d.ts", "routes/b.tsx", "lib/c.css", ".rstf/g.go",
               "node_modules/pkg/m.go", ".tmp/t.go"}

\* filepath.Base on a clean relative path
PathBase(p) == IF LastSlash(p) = 0 THEN p ELSE SubSeq(p, LastSlash(p) + 1, Len(p))

fileKind(path) ==
  IF HasSuffix(path, ".go") THEN "go"
  ELSE IF HasSuffix(path, ".tsx") THEN "tsx"
  ELSE IF HasSuffix(path, ".css") THEN "css"
  ELSE ""

shouldIgnoreDir(appRoot, path) ==
  \/ HasPrefix(PathBase(path), ".") /\ path # appRoot
  \/ PathBase(path) = "node_modules"

\* fileKind and shouldIgnoreDir on the paths of the model
KindOf == [f \in WatchFiles |-> fileKind(f)]

IgnoredDirs == {d \in WatchDirs : shouldIgnoreDir(".", d)}

DirOf == [f \in WatchFiles |-> PathDir(f)]

\* path a is path d or an ancestor of it
Within == {<<a, d>> \in WatchDirs \X WatchDirs : a = "." \/ a = d \/ HasPrefix(d, a \o "/")}

\* filepath.WalkDir(root) with the callback of Start and toEvent: the directories
\* it adds to the watch list; an ignored directory is skipped with its subtree
walkAdd(root, dirs) ==
  {d \in dirs : /\ <<root, d>> \in Within
                /\ ~\E a \in IgnoredDirs : <<root, a>> \in Within /\ <<a, d>> \in Within}

\* the watcher after New and Start on a tree without watched files
Started ==
  [running |-> TRUE,
   dirs    |-> StartDirs,                  \* the directories that exist
   present |-> {},                         \* the files that exist
   list    |-> walkAdd(".", StartDirs),    \* fsnotify's watch list
   events  |-> <<>>,                       \* fsnotify's Events channel
   pending |-> EmptyMap,                   \* loop's pending map: path -> Event
   timer   |-> FALSE,                      \* the debounce timer is armed
   called  |-> {},                         \* the paths onChange was called with
   accepted |-> 0,                         \* number of events toEvent accepted
   recent  |-> EmptyMap,                   \* path -> number of its last accepted event
   fires   |-> 0,                          \* number of times the timer case ran
   fired   |-> {},                         \* the Events the last timer case handed to onChange
   owed    |-> {},                         \* files changed under watch, not yet reported
   ops     |-> 0]

InitWatch ==
  /\ tree = InitTree
  /\ pending = {}
  /\ edits = 0
  /\ filesByDir = EmptyMap
  /\ files = {}
  /\ deps = EmptyMap
  /\ entries = EmptyMap
  /\ prevServerCode = ""
  /\ cache = newFSCache
  /\ disk = EmptyMap
  /\ ret = Returned("none", FALSE, 0, EmptyMap, FALSE, {})
  /\ server = NoServer
  /\ build = NoBuild
  /\ sidecar = NoSidecar
  /\ watch = Started

\* fsnotify: an operation on name queues an event when its directory is watched
emit(w, name, dir, op) ==
  IF w.running /\ dir \in w.list THEN Append(w.events, [Name |-> name, Op |-> op]) ELSE w.events

\* a file of a watched kind changed in a watched directory of a running watcher
owes(w, f) ==
  IF w.running /\ DirOf[f] \in w.list /\ KindOf[f] # "" THEN w.owed \cup {f} ELSE w.owed

\* the file system: a file is created, written or removed, a directory created
FsFile(f, op) ==
  /\ watch.ops < MaxFsOps
  /\ DirOf[f] \in watch.dirs
  /\ IF op = "Create" THEN f \notin watch.present ELSE f \in watch.present
  /\ watch' = [watch EXCEPT !.present = IF op = "Remove" THEN @ \ {f} ELSE @ \cup {f},
                            !.events = emit(watch, f, DirOf[f], op),
                            !.owed = owes(watch, f),
                            !.ops = @ + 1]
  /\ UNCHANGED watchOthers

FsMkdir(d) ==
  /\ watch.ops < MaxFsOps
  /\ d \notin watch.dirs
  /\ watch' = [watch EXCEPT !.dirs = @ \cup {d},
                            !.events = emit(watch, d, PathDir(d), "Create"),
                            !.ops = @ + 1]
  /\ UNCHANGED watchOthers

\* Watcher.toEvent: only writes, creates and renames are looked at
relevantOp(op) == op \in {"Write", "Create", "Rename"}

\* Watcher.toEvent on ev: the new watch list, and the Event if there is one
toEvent(w, ev) ==
  IF ~relevantOp(ev.Op) THEN [list |-> w.list, ok |-> FALSE]
  ELSE IF ev.Op = "Create" /\ ev.Name \in w.dirs
  THEN [list |-> w.list \cup walkAdd(ev.Name, w.dirs), ok |-> FALSE]
  ELSE IF ev.Name \notin WatchFiles \/ KindOf[ev.Name] = ""
  THEN [list |-> w.list, ok |-> FALSE]
  ELSE [list |-> w.list, ok |-> TRUE]

\* the Event toEvent returns for the file name; n numbers the accepted events
WatchEvent(name, n) == [Path |-> name, Kind |-> KindOf[name], n |-> n]

\* a loop that keeps every event it accepts: a faulty variant
setPendingPerEvent(p, e) == Put(p, e.Path \o "#" \o ToString(e.n), e)

\* loop: pending[e.Path] = e
setPending(p, e) == Put(p, e.Path, e)

\* the paths of the pending events
PendingPaths(w) == {w.pending[k].Path : k \in DOMAIN w.pending}

\* loop, case ev := <-w.fsw.Events
LoopEvent ==
  /\ watch.running
  /\ watch.events # <<>>
  /\ watch' = LET r == toEvent(watch, Head(watch.events))
                  e == WatchEvent(Head(watch.events).Name, watch.accepted + 1)
              IN  IF r.ok
                  THEN [watch EXCEPT !.events = Tail(@),
                                     !.list = r.list,
                                     !.pending = setPending(@, e),
                                     !.timer = TRUE,
                                     !.accepted = @ + 1,
                                     !.recent = Put(@, e.Path, e.n)]
                  ELSE [watch EXCEPT !.events = Tail(@), !.list = r.list]
  /\ UNCHANGED watchOthers

\* the watcher after the timer case: onChange was called for every pending event
flush(w) ==
  [w EXCEPT !.timer = FALSE,
            !.pending = EmptyMap,
            !.called = @ \cup PendingPaths(w),
            !.owed = @ \ PendingPaths(w),
            !.fires = @ + 1,
            !.fired = {w.pending[k] : k \in DOMAIN w.pending}]

\* loop, case <-timer.C: onChange for every pending event
LoopTimer ==
  /\ watch.running
  /\ watch.timer
  /\ watch' = flush(watch)
  /\ UNCHANGED watchOthers

\* Watcher.Stop: fsnotify is closed, the loop returns
Stop ==
  /\ watch.running
  /\ watch' = [watch EXCEPT !.running = FALSE, !.events = <<>>, !.timer = FALSE]
  /\ UNCHANGED watchOthers

NextWatch ==
  \/ \E f \in WatchFiles : \E op \in {"Create", "Write", "Remove"} : FsFile(f, op)
  \/ \E d \in NewDirs : FsMkdir(d)
  \/ LoopEvent
  \/ LoopTimer
  \/ Stop

SpecWatch == InitWatch /\ [][NextWatch]_vars

\* the loop's goroutine keeps running and an armed timer fires
SpecWatchFair == SpecWatch /\ WF_vars(LoopEvent) /\ WF_vars(LoopTimer)

(***************************************************************************)
(* Properties of the watcher, stated over SpecWatch and SpecWatchFair.     *)
(***************************************************************************)
\* C22: a .go, .tsx or .css file that is created, written or removed in a
\* watched directory of a running watcher is eventually handed to onChange
\* (unless the watcher is stopped first).
C22_ChangeEventuallyReported ==
  \A f \in WatchFiles : (f \in watch.owed) ~> (f \notin watch.owed \/ ~watch.running)

\* the parts of the path p: its directories and its base name
PathParts(p) == {PathBase(a) : a \in {d \in WatchDirs : d # "." /\ HasPrefix(p, d \o "/")}} \cup {PathBase(p)}

\* p is a hidden file or lies in a hidden directory, in .rstf/ or in node_modules/
IgnoredPath == [f \in WatchFiles |-> \E n \in PathParts(f) : HasPrefix(n, ".") \/ n = "node_modules"]

\* C23: onChange is never called for a path inside .rstf/, inside node_modules/,
\* inside a hidden directory (created before or after Start), or for a hidden file.
C23_IgnoredNeverReported == \A f \in watch.called : ~IgnoredPath[f]

(***************************************************************************)
(* The SSR sidecar (the Bun script of the renderer): every POST /render    *)
(* runs as an async function on one event loop, so another request may run *)
(* at each of its awaits and at no other place.                            *)
(***************************************************************************)
MaxRequests == 3

Requests == 1..MaxRequests

\* the request bodies: component, layout and the serverData keys sent with them
RenderBodies ==
  {[component |-> "routes/a/index.tsx", layout |-> "main.tsx", serverData |-> {"main", "routes/a/index"}],
   [component |-> "routes/b/index.tsx", layout |-> "main.tsx",
    serverData |-> {"main", "routes/b/index", "shared/x/card"}],
   [component |-> "routes/c/index.tsx", layout |-> "main.tsx", serverData |-> {"main", "shared/y/plain"}]}

\* the component paths with a generated module that exports __setServerData
GeneratedModules == {"main", "routes/a/index", "routes/b/index", "shared/x/card"}

NoRequest == [pc |-> "none"]

\* the sidecar after start-up: empty caches, no module holds server data
StartedSidecar ==
  [running |-> TRUE,
   reqs |-> [r \in Requests |-> NoRequest],
   moduleCache |-> {},
   generatedModuleCache |-> {},
   data |-> [m \in GeneratedModules |-> 0],   \* the request whose data the module holds
   seen |-> [r \in Requests |-> EmptyMap]]    \* the data each request's render read

InitSidecar ==
  /\ tree = InitTree
  /\ pending = {}
  /\ edits = 0
  /\ filesByDir = EmptyMap
  /\ files = {}
  /\ deps = EmptyMap
  /\ entries = EmptyMap
  /\ prevServerCode = ""
  /\ cache = newFSCache
  /\ disk = EmptyMap
  /\ ret = Returned("none", FALSE, 0, EmptyMap, FALSE, {})
  /\ server = NoServer
  /\ build = NoBuild
  /\ watch = NoWatch
  /\ sidecar = StartedSidecar

\* the handler step in which __setServerData is called: before the awaits of
\* loadComponent, a faulty variant
setsDataEarly(step) == step = "resolve"

\* the handler step in which __setServerData is called: the synchronous phase
setsData(step) == step = "render"

\* the calls mod.__setServerData(data) of request r for the resolved modules ms
setServerData(data, r, ms) == [m \in DOMAIN data |-> IF m \in ms THEN r ELSE data[m]]

\* resolveGeneratedModules: the keys with a generated module
resolveGeneratedModules(serverData) == serverData \cap GeneratedModules

\* a request arrives; the handler runs up to `await req.json()`
Receive(r, body) ==
  /\ sidecar.reqs[r].pc = "none"
  /\ \A q \in Requests : q < r => sidecar.reqs[q].pc # "none"
  /\ sidecar' = [sidecar EXCEPT !.reqs[r] = [pc |-> "json", body |-> body, mods |-> {}]]
  /\ UNCHANGED sidecarOthers

\* up to `await loadComponent(body.layout)`: the generated modules are resolved
Resolve(r) ==
  /\ sidecar.reqs[r].pc = "json"
  /\ LET ms == resolveGeneratedModules(sidecar.reqs[r].body.serverData)
     IN  sidecar' = [sidecar EXCEPT !.reqs[r].pc = "resolved",
                                    !.reqs[r].mods = ms,
                                    !.generatedModuleCache = @ \cup ms,
                                    !.data = IF setsData("resolve") THEN setServerData(@, r, ms) ELSE @]
  /\ UNCHANGED sidecarOthers

\* up to `await loadComponent(body.component)`: the layout is loaded
LoadLayout(r) ==
  /\ sidecar.reqs[r].pc = "resolved"
  /\ sidecar' = [sidecar EXCEPT !.reqs[r].pc = "layout",
                                !.moduleCache = @ \cup {sidecar.reqs[r].body.layout}]
  /\ UNCHANGED sidecarOthers

\* the route component is loaded; what follows has no await
LoadRoute(r) ==
  /\ sidecar.reqs[r].pc = "layout"
  /\ sidecar' = [sidecar EXCEPT !.reqs[r].pc = "route",
                                !.moduleCache = @ \cup {sidecar.reqs[r].body.component}]
  /\ UNCHANGED sidecarOthers

\* the synchronous phase: the __setServerData calls and renderToString, which
\* reads the data of the modules the request resolved
Render(r) ==
  /\ sidecar.reqs[r].pc = "route"
  /\ LET ms == sidecar.reqs[r].mods
         d  == IF setsData("render") THEN setServerData(sidecar.data, r, ms) ELSE sidecar.data
     IN  sidecar' = [sidecar EXCEPT !.reqs[r].pc = "done",
                                    !.data = d,
                                    !.seen[r] = [m \in ms |-> d[m]]]
  /\ UNCHANGED sidecarOthers

\* POST /invalidate clears both caches
Invalidate ==
  /\ sidecar.moduleCache # {} \/ sidecar.generatedModuleCache # {}
  /\ sidecar' = [sidecar EXCEPT !.moduleCache = {}, !.generatedModuleCache = {}]
  /\ UNCHANGED sidecarOthers

NextSidecar ==
  \/ \E r \in Requests : \E body \in RenderBodies : Receive(r, body)
  \/ \E r \in Requests : Resolve(r)
  \/ \E r \in Requests : LoadLayout(r)
  \/ \E r \in Requests : LoadRoute(r)
  \/ \E r \in Requests : Render(r)
  \/ Invalidate

SpecSidecar == InitSidecar /\ [][NextSidecar]_vars

(***************************************************************************)
(* Properties of the sidecar, stated over SpecSidecar.                     *)
(***************************************************************************)
\* C24: with render requests in flight together, the render of every request
\* reads, in each module the request set server data in, the data of that same
\* request: no __setServerData of another request comes between a request's own
\* __setServerData calls and its renderToString.
C24_RenderSeesOwnData ==
  \A r \in Requests : sidecar.reqs[r].pc = "done" =>
    \A m \in DOMAIN sidecar.seen[r] : sidecar.seen[r][m] = r

\* a request rendered while an earlier one, which resolved a module in common
\* with it, was suspended at its last await
C24_Witness ==
  \E r, q \in Requests :
    /\ q < r
    /\ sidecar.reqs[q].pc = "route"
    /\ sidecar.reqs[r].pc = "done"
    /\ \E m \in sidecar.reqs[q].mods : m \in DOMAIN sidecar.seen[r] /\ sidecar.data[m] = r

(***************************************************************************)
(* conventions.FolderToURLPattern, applied to folder names built from up   *)
(* to MaxSegs dot-separated segments.                                      *)
(***************************************************************************)
MaxSegs == 3

Segments == {"index", "users", "$id", "$", ""}

FolderNames == UNION {[1..n -> Segments] : n \in 1..MaxSegs}

InitConv ==
  /\ tree = InitTree
  /\ pending = {}
  /\ edits = 0
  /\ filesByDir = EmptyMap
  /\ files = {}
  /\ deps = EmptyMap
  /\ entries = EmptyMap
  /\ prevServerCode = ""
  /\ cache = newFSCache
  /\ disk = EmptyMap
  /\ ret = [op |-> "none", segs |-> <<>>, folderName |-> "", pattern |-> ""]
  /\ server = NoServer
  /\ build = NoBuild
  /\ watch = NoWatch
  /\ sidecar = NoSidecar

\* one call of FolderToURLPattern on the folder name with the segments segs
FolderCall(segs) ==
  /\ ret' = [op |-> "FolderToURLPattern", segs |-> segs, folderName |-> Join(segs, "."),
             pattern |-> FolderToURLPattern(Join(segs, "."))]
  /\ UNCHANGED <<tree, pending, edits, gstate, disk, others>>

NextConv == \E segs \in FolderNames : FolderCall(segs)

SpecConv == InitConv /\ [][NextConv]_vars

\* the path segments of a URL pattern
PatternSegments(pattern) == Split(SubSeq(pattern, 2, Len(pattern)), "/")

\* C25: the folder name "index" maps to the root path "/"; every other folder
\* name maps to a pattern that starts with "/" and has one path segment per
\* dot-separated segment of the name, in the same order: {name} for a segment
\* $name, the segment itself otherwise (also for "index" in a longer name).
C25_FolderToURLPattern ==
  ret.op = "FolderToURLPattern" =>
    IF ret.folderName = "index" THEN ret.pattern = "/"
    ELSE /\ HasPrefix(ret.pattern, "/")
         /\ Len(PatternSegments(ret.pattern)) = Len(ret.segs)
         /\ \A i \in 1..Len(ret.segs) :
              LET seg == ret.segs[i]
                  out == PatternSegments(ret.pattern)[i]
              IN  IF HasPrefix(seg, "$")
                  THEN /\ HasPrefix(out, "{") /\ HasSuffix(out, "}")
                       /\ "$" \o SubSeq(out, 2, Len(out) - 1) = seg
                  ELSE out = seg

\* a name with a plain segment, a parameter and the segment index was mapped
C25_Witness ==
  /\ ret.op = "FolderToURLPattern"
  /\ ret.segs = <<"users", "$id", "index">>
  /\ ret.pattern = "/users/{id}/index"

(***************************************************************************)
(* Generator.Generate step by step: the goroutines of phases 2 and 3, the  *)
(* semaphore, the error slot and the joins of the WaitGroup.               *)
(***************************************************************************)
MaxBuilds == 2

\* runtime.NumCPU(): the capacity of the semaphore
NumCPU == 2

\* the project that is built: a layout, two routes (one with a dynamic
\* segment) and a shared component
BuildTree ==
  [go  |-> [d \in GoDirs |-> IF d \in {".", "routes/a", "routes/u.$id"} THEN "one" ELSE NoFile],
   tsx |-> [p \in TsxPaths |->
              CASE p = "routes/a/index.tsx" -> Tsx(<<"main">>)
                [] p = "routes/u.$id/index.tsx" -> Tsx(<<>>)
                [] OTHER -> Tsx(<<>>)]]

Task(kind, dir) == [kind |-> kind, dir |-> dir]

BuildTasks == {Task(k, d) : k \in {"deps", "dts", "entry"}, d \in GoDirs}

NoErr == ""

\* the goroutines phase 2 spawns: one per depJob, one per RouteFile
Phase2Tasks(t, tbl) ==
  {Task("deps", d) : d \in DepJobs(t, DOMAIN tbl)} \cup {Task("dts", d) : d \in DOMAIN tbl}

\* the goroutines phase 3 spawns: one per route directory of the deps map
Phase3Tasks(ds) == {Task("entry", d) : d \in {r \in DOMAIN ds : IsRouteDir(r)}}

\* a Generator after NewGenerator, before its first Generate
InitBuild ==
  /\ tree = BuildTree
  /\ pending = {}
  /\ edits = 0
  /\ filesByDir = EmptyMap
  /\ files = {}
  /\ deps = EmptyMap
  /\ entries = EmptyMap
  /\ prevServerCode = ""
  /\ cache = newFSCache
  /\ disk = EmptyMap
  /\ ret = [op |-> "none", err |-> FALSE, error |-> NoErr]
  /\ server = NoServer
  /\ watch = NoWatch
  /\ sidecar = NoSidecar
  /\ build = [pc |-> "idle", calls |-> 0, tbl |-> EmptyMap,
              tasks |-> [t \in BuildTasks |-> "none"],
              deps |-> EmptyMap, entries |-> EmptyMap,
              firstErr |-> NoErr, raised |-> <<>>,
              before |-> <<EmptyMap, {}, EmptyMap, EmptyMap, "">>,
              orphans |-> [t \in BuildTasks |-> "none"]]

persisted == <<filesByDir, files, deps, entries, prevServerCode>>

Active(b) == {t \in BuildTasks : b.tasks[t] \in {"spawned", "running"}}

\* wg.Wait() without the wait: a faulty variant
joinedAtOnce(b, ts) == TRUE

\* wg.Wait() returns: every goroutine of ts has called wg.Done()
joined(b, ts) == \A t \in ts : b.tasks[t] \in {"done", "failed"}

\* the test `firstErr != nil` left out: a faulty variant
abortsNever(b) == FALSE

\* `if firstErr != nil { return GenerateResult{}, firstErr }`
aborts(b) == b.firstErr # NoErr

\* setErr: the slot keeps the first error
setErr(b, e) == [b EXCEPT !.firstErr = IF @ = NoErr THEN e ELSE @, !.raised = Append(@, e)]

\* Generate returns the error e
ReturnErr(b, e) ==
  /\ ret' = [op |-> "Generate", err |-> TRUE, error |-> e]
  /\ UNCHANGED <<filesByDir, files, deps, entries, prevServerCode>>

\* phase 1 and the go statements of phase 2; the call is made when no
\* goroutine of an earlier call is left
BuildStart ==
  /\ build.pc \in {"idle", "returned"}
  /\ build.calls < MaxBuilds
  /\ Active(build) = {}
  /\ \E tbl \in ParseDir(tree) :
       build' = [pc |-> "symlinks", calls |-> build.calls + 1, tbl |-> tbl,
                 tasks |-> [t \in BuildTasks |->
                              IF t \in Phase2Tasks(tree, tbl) THEN "spawned" ELSE "none"],
                 deps |-> EmptyMap, entries |-> EmptyMap,
                 firstErr |-> NoErr, raised |-> <<>>,
                 before |-> persisted,
                 orphans |-> build.orphans]
  /\ disk' = EmptyMap
  /\ cache' = newFSCache
  /\ UNCHANGED <<tree, pending, edits, filesByDir, files, deps, entries, prevServerCode, ret,
                 server, watch, sidecar>>

\* a goroutine takes a slot of the semaphore
TaskStart(t) ==
  /\ build.tasks[t] = "spawned"
  /\ Cardinality({u \in BuildTasks : build.tasks[u] = "running"}) < NumCPU
  /\ build' = [build EXCEPT !.tasks[t] = "running"]
  /\ UNCHANGED <<tree, pending, edits, gstate, disk, ret, server, watch, sidecar>>

\* a goroutine does its work and returns; io is an I/O error it meets
TaskFinish(t, io) ==
  /\ build.tasks[t] = "running"
  /\ CASE t.kind = "deps" ->
            \E a \in {AnalyzeDeps(tree, PathJoin(t.dir, "index.tsx"), cache)} :
              /\ cache' = a.cache
              /\ disk' = disk
              /\ build' = IF a.err \/ io
                          THEN [setErr(build, "analyzing deps for " \o t.dir)
                                  EXCEPT !.tasks[t] = "failed"]
                          ELSE [build EXCEPT !.tasks[t] = "done", !.deps = Put(@, t.dir, a.deps)]
       [] t.kind = "dts" ->
            /\ cache' = cache
            /\ disk' = IF io THEN disk ELSE Overlay(disk, writeDTSAndRuntime(build.tbl[t.dir]))
            /\ build' = IF io
                        THEN [setErr(build, "writing " \o DTSPath(t.dir)) EXCEPT !.tasks[t] = "failed"]
                        ELSE [build EXCEPT !.tasks[t] = "done"]
       [] OTHER ->
            /\ cache' = cache
            /\ disk' = IF io THEN disk
                       ELSE Put(disk, EntryPath(t.dir), GenerateHydrationEntry(t.dir, build.deps[t.dir]))
            /\ build' = IF io
                        THEN [setErr(build, "writing entry " \o EntryPath(t.dir))
                                EXCEPT !.tasks[t] = "failed"]
                        ELSE [build EXCEPT !.tasks[t] = "done", !.entries = Put(@, t.dir, EntryPath(t.dir))]
  /\ UNCHANGED <<tree, pending, edits, filesByDir, files, deps, entries, prevServerCode, ret,
                 server, watch, sidecar>>

\* the symlink loop of phase 2, run while the goroutines run; on an error of
\* os.MkdirAll or os.Symlink Generate returns at once
SymlinkStep(io) ==
  /\ build.pc = "symlinks"
  /\ IF io
     THEN /\ build' = [build EXCEPT !.pc = "returned", !.raised = Append(@, "creating symlink")]
          /\ ReturnErr(build, "creating symlink")
          /\ disk' = disk
     ELSE /\ build' = [build EXCEPT !.pc = "wait2"]
          /\ disk' = Overlay(disk, Symlinks(DOMAIN build.tbl))
          /\ UNCHANGED <<filesByDir, files, deps, entries, prevServerCode, ret>>
  /\ UNCHANGED <<tree, pending, edits, cache, server, watch, sidecar>>

\* wg.Wait() of phase 2, the test of firstErr and the go statements of phase 3
Join2 ==
  /\ build.pc = "wait2"
  /\ joined(build, Phase2Tasks(tree, build.tbl))
  /\ IF aborts(build)
     THEN /\ build' = [build EXCEPT !.pc = "returned"]
          /\ ReturnErr(build, build.firstErr)
     ELSE /\ build' = [build EXCEPT !.pc = "wait3",
                                    !.tasks = [t \in BuildTasks |->
                                                 IF t \in Phase3Tasks(build.deps) THEN "spawned" ELSE @[t]]]
          /\ UNCHANGED <<filesByDir, files, deps, entries, prevServerCode, ret>>
  /\ UNCHANGED <<tree, pending, edits, cache, disk, server, watch, sidecar>>

\* wg.Wait() of phase 3, the test of firstErr and phase 4
Join3 ==
  /\ build.pc = "wait3"
  /\ joined(build, Phase3Tasks(build.deps))
  /\ IF aborts(build)
     THEN /\ build' = [build EXCEPT !.pc = "returned"]
          /\ ReturnErr(build, build.firstErr)
          /\ disk' = disk
     ELSE \E in \in ServerInputs(build.tbl, build.deps) :
          \E srv \in {GenerateServer(modulePath, in[1], build.deps, in[2])} :
            IF srv.err
            THEN /\ build' = [build EXCEPT !.pc = "returned", !.raised = Append(@, "generating server")]
                 /\ ReturnErr(build, "generating server")
                 /\ disk' = disk
            ELSE /\ build' = [build EXCEPT !.pc = "returned"]
                 /\ disk' = Put(disk, ServerPath, srv.text)
                 /\ filesByDir' = build.tbl
                 /\ files' = {build.tbl[d] : d \in DOMAIN build.tbl}
                 /\ deps' = build.deps
                 /\ entries' = build.entries
                 /\ prevServerCode' = srv.text
                 /\ ret' = [op |-> "Generate", err |-> FALSE, error |-> NoErr]
  /\ UNCHANGED <<tree, pending, edits, cache, server, watch, sidecar>>

NextBuild ==
  \/ BuildStart
  \/ \E t \in BuildTasks : TaskStart(t)
  \/ \E t \in BuildTasks : \E io \in BOOLEAN : TaskFinish(t, io)
  \/ \E io \in BOOLEAN : SymlinkStep(io)
  \/ Join2
  \/ Join3

SpecBuild == InitBuild /\ [][NextBuild]_vars

(***************************************************************************)
(* Properties of the phases of a full build, stated over SpecBuild.        *)
(***************************************************************************)
TasksOf(kinds) == {t \in BuildTasks : t.kind \in kinds /\ build.tasks[t] # "none"}

\* phase 4 has run: Generate returned without error or with GenerateServer's
ServerGenerated ==
  build.pc = "returned" /\ ret.op = "Generate" /\ (~ret.err \/ ret.error = "generating server")

\* C26: a hydration-entry task exists only when every dependency-analysis task
\* and every DTS/runtime task of the build is done and the dependency map holds
\* every analysed route; the server entry is generated only when every
\* hydration-entry task is done and the entries map holds every route of the
\* dependency map.
C26_PhasesAreJoined ==
  /\ TasksOf({"entry"}) # {} =>
       /\ \A t \in TasksOf({"deps", "dts"}) : build.tasks[t] = "done"
       /\ DOMAIN build.deps = DepJobs(tree, DOMAIN build.tbl)
       /\ TasksOf({"entry"}) = Phase3Tasks(build.deps)
  /\ ServerGenerated =>
       /\ TasksOf({"entry"}) # {}
       /\ \A t \in TasksOf({"entry"}) : build.tasks[t] = "done"
       /\ DOMAIN build.entries = {r \in DOMAIN build.deps : IsRouteDir(r)}

\* a build went through both joins and wrote the server entry
C26_Witness ==
  /\ ServerGenerated /\ ~ret.err
  /\ ServerPath \in DOMAIN disk
  /\ Cardinality(TasksOf({"entry"})) = 2

\* a task of the last call failed
TaskFailed == \E t \in BuildTasks : build.tasks[t] = "failed"

\* C27: when a parallel task of a full build failed and Generate has returned,
\* it returned an error, no task of a later phase was started, server_gen.go is
\* not on disk, and filesByDir, files, deps, entries and prevServerCode have the
\* values they had before the call.
C27_FailedTaskAbortsBuild ==
  (build.pc = "returned" /\ TaskFailed) =>
    /\ ret.err
    /\ (\E t \in TasksOf({"deps", "dts"}) : build.tasks[t] = "failed") => TasksOf({"entry"}) = {}
    /\ ServerPath \notin DOMAIN disk
    /\ persisted = build.before

\* the second build of a Generator failed in a task of phase 3, after the first
\* build had filled the persisted state
C27_Witness ==
  /\ build.pc = "returned" /\ build.calls = 2
  /\ \E t \in TasksOf({"entry"}) : build.tasks[t] = "failed"
  /\ filesByDir # EmptyMap /\ prevServerCode # ""

\* C28: the error Generate returns is the first error raised during the call.
C28_FirstErrorReturned ==
  (build.pc = "returned" /\ ret.err) => ret.error = build.raised[1]

\* C29: when Generate has returned, none of the tasks it spawned is waiting or
\* running.
C29_NoTaskOutlivesCall ==
  build.pc = "returned" => Active(build) = {}

(***************************************************************************)
(* The output paths of two parsed directories (dtsFileName and             *)
(* runtimeModulePath), as two tasks of phase 2 compute them.               *)
(***************************************************************************)
\* directories ParseDir can return: any directory of the project with a route file
ParsedDirs ==
  {".", "main", "a", "routes/a", "routes/b", "routes/u.$id", "routes/$u.id", "routes/u.id",
   "routes/u-id", "routes/u/id", "shared/x", "shared-x"}

InitPaths ==
  /\ tree = InitTree
  /\ pending = {}
  /\ edits = 0
  /\ filesByDir = EmptyMap
  /\ files = {}
  /\ deps = EmptyMap
  /\ entries = EmptyMap
  /\ prevServerCode = ""
  /\ cache = newFSCache
  /\ disk = EmptyMap
  /\ ret = [op |-> "none", dirs |-> <<>>, dts |-> <<>>, runtime |-> <<>>]
  /\ server = NoServer
  /\ build = NoBuild
  /\ watch = NoWatch
  /\ sidecar = NoSidecar

\* the paths writeDTSAndRuntime writes for the directories a and b
PathsCall(a, b) ==
  /\ a # b
  /\ ret' = [op |-> "writeDTSAndRuntime", dirs |-> <<a, b>>,
             dts |-> <<DTSPath(a), DTSPath(b)>>,
             runtime |-> <<RuntimePath(a), RuntimePath(b)>>]
  /\ UNCHANGED <<tree, pending, edits, gstate, disk, others>>

NextPaths == \E a, b \in ParsedDirs : PathsCall(a, b)

SpecPaths == InitPaths /\ [][NextPaths]_vars

\* C30: two distinct parsed directories never get the same type declaration
\* path nor the same runtime module path.
C30_DistinctOutputPaths ==
  ret.op = "writeDTSAndRuntime" =>
    /\ ret.dts[1] # ret.dts[2]
    /\ ret.runtime[1] # ret.runtime[2]

(***************************************************************************)
(* Generate called again on a Generator whose last call returned from the *)
(* symlink loop: the goroutines of that call are still there, on the       *)
(* semaphore of that call.                                                 *)
(***************************************************************************)
\* a project with one route, which has a dynamic segment
CallsTree ==
  [go  |-> [d \in GoDirs |-> IF d = "routes/u.$id" THEN "one" ELSE NoFile],
   tsx |-> [p \in TsxPaths |-> IF p = "routes/u.$id/index.tsx" THEN Tsx(<<>>) ELSE Absent]]

InitCalls ==
  /\ tree = CallsTree
  /\ pending = {}
  /\ edits = 0
  /\ filesByDir = EmptyMap
  /\ files = {}
  /\ deps = EmptyMap
  /\ entries = EmptyMap
  /\ prevServerCode = ""
  /\ cache = newFSCache
  /\ disk = EmptyMap
  /\ ret = [op |-> "none", err |-> FALSE, error |-> NoErr]
  /\ server = NoServer
  /\ watch = NoWatch
  /\ sidecar = NoSidecar
  /\ build = [pc |-> "idle", calls |-> 0, tbl |-> EmptyMap,
              tasks |-> [t \in BuildTasks |-> "none"],
              deps |-> EmptyMap, entries |-> EmptyMap,
              firstErr |-> NoErr, raised |-> <<>>,
              before |-> <<EmptyMap, {}, EmptyMap, EmptyMap, "">>,
              orphans |-> [t \in BuildTasks |-> "none"]]

\* the goroutines that hold a slot of a semaphore: they execute their work
Executing(b) ==
  {<<"task", t>> : t \in {u \in BuildTasks : b.tasks[u] = "running"}}
    \cup {<<"orphan", t>> : t \in {u \in BuildTasks : b.orphans[u] = "running"}}

\* phase 1 and the go statements of phase 2 of a call made while goroutines
\* of the last call are left: they stay, with the semaphore they were given
GenerateAgain ==
  /\ build.pc = "returned"
  /\ build.calls < MaxBuilds
  /\ Active(build) # {}
  /\ \A t \in BuildTasks : build.orphans[t] \notin {"spawned", "running"}
  /\ \E tbl \in ParseDir(tree) :
       build' = [pc |-> "symlinks", calls |-> build.calls + 1, tbl |-> tbl,
                 tasks |-> [t \in BuildTasks |->
                              IF t \in Phase2Tasks(tree, tbl) THEN "spawned" ELSE "none"],
                 deps |-> EmptyMap, entries |-> EmptyMap,
                 firstErr |-> NoErr, raised |-> <<>>,
                 before |-> persisted,
                 orphans |-> [t \in BuildTasks |->
                                IF t \in Active(build) THEN build.tasks[t] ELSE "none"]]
  /\ disk' = EmptyMap
  /\ cache' = newFSCache
  /\ UNCHANGED <<tree, pending, edits, filesByDir, files, deps, entries, prevServerCode, ret,
                 server, watch, sidecar>>

\* a goroutine of the last call takes a slot of that call's semaphore
OrphanStart(t) ==
  /\ build.orphans[t] = "spawned"
  /\ Cardinality({u \in BuildTasks : build.orphans[u] = "running"}) < NumCPU
  /\ build' = [build EXCEPT !.orphans[t] = "running"]
  /\ UNCHANGED <<tree, pending, edits, gstate, disk, ret, server, watch, sidecar>>

\* a goroutine of the last call does its work: its map and its error slot are
\* those of the call that returned, its files are written to .rstf/
OrphanFinish(t) ==
  /\ build.orphans[t] = "running"
  /\ build' = [build EXCEPT !.orphans[t] = "done"]
  /\ disk' = IF t.kind = "dts" /\ t.dir \in DOMAIN build.tbl
             THEN Overlay(disk, writeDTSAndRuntime(build.tbl[t.dir])) ELSE disk
  /\ cache' = IF t.kind = "deps"
              THEN AnalyzeDeps(tree, PathJoin(t.dir, "index.tsx"), cache).cache ELSE cache
  /\ UNCHANGED <<tree, pending, edits, filesByDir, files, deps, entries, prevServerCode, ret,
                 server, watch, sidecar>>

NextCalls ==
  \/ BuildStart
  \/ GenerateAgain
  \/ \E t \in BuildTasks : TaskStart(t)
  \/ \E t \in BuildTasks : \E io \in BOOLEAN : TaskFinish(t, io)
  \/ \E t \in BuildTasks : OrphanStart(t)
  \/ \E t \in BuildTasks : OrphanFinish(t)
  \/ \E io \in BOOLEAN : SymlinkStep(io)
  \/ Join2
  \/ Join3

SpecCalls == InitCalls /\ [][NextCalls]_vars

\* C31: at every moment at most NumCPU goroutines of the Generator execute
\* their work (hold a slot of a semaphore), whatever their kind and phase.
C31_AtMostNumCPUExecuting == Cardinality(Executing(build)) <= NumCPU

(***************************************************************************)
(* fsCache under concurrent walks (imports.go): every goroutine calls      *)
(* readFile or dirHasGoFile; the mutex is taken and released as the code   *)
(* does, the file system is read outside it.                               *)
(***************************************************************************)
MaxWalkers == 2

MaxCacheCalls == 2

Walkers == 1..MaxWalkers

\* what the walks ask the cache for: a file that exists, one that does not,
\* a directory with a .go file and one without
CacheCalls ==
  {[fn |-> "readFile", arg |-> "shared/x/index.tsx"], [fn |-> "readFile", arg |-> "routes/u.$id/index.tsx"],
   [fn |-> "dirHasGoFile", arg |-> "shared/x"], [fn |-> "dirHasGoFile", arg |-> "routes/u.$id"]}

NoCall == [pc |-> "idle", calls |-> 0]

InitCache ==
  /\ tree = InitTree
  /\ pending = {}
  /\ edits = 0
  /\ filesByDir = EmptyMap
  /\ files = {}
  /\ deps = EmptyMap
  /\ entries = EmptyMap
  /\ prevServerCode = ""
  /\ cache = newFSCache
  /\ disk = EmptyMap
  /\ ret = [op |-> "fsCache", mu |-> 0, unguarded |-> FALSE, w |-> [g \in Walkers |-> NoCall]]
  /\ server = NoServer
  /\ build = NoBuild
  /\ watch = NoWatch
  /\ sidecar = NoSidecar

\* fsCache's methods with the write-back done outside the mutex: a faulty variant
locksFirstOnly(access) == access = "check"

\* the accesses to the maps before which the methods call c.mu.Lock()
locks(access) == access \in {"check", "write"}

\* the cached value of a call, <<>> when there is none
Cached(c, call) ==
  IF call.fn = "readFile"
  THEN IF call.arg \in DOMAIN c.files THEN <<c.files[call.arg]>> ELSE <<>>
  ELSE IF call.arg \in DOMAIN c.hasGo THEN <<c.hasGo[call.arg]>> ELSE <<>>

\* os.ReadFile and filepath.Glob: [err, value]
Uncached(t, call) ==
  IF call.fn = "readFile"
  THEN IF TsxExists(t, call.arg) THEN [err |-> FALSE, value |-> t.tsx[call.arg]]
       ELSE [err |-> TRUE, value |-> Absent]
  ELSE [err |-> FALSE, value |-> dirHasGoFile(t, call.arg)]

cacheRest == <<tree, pending, edits, filesByDir, files, deps, entries, prevServerCode, disk,
               server, watch, sidecar, build>>

\* a goroutine calls readFile or dirHasGoFile
CacheCall(g, call) ==
  /\ ret.w[g].pc \in {"idle", "done"}
  /\ ret.w[g].calls < MaxCacheCalls
  /\ ret' = [ret EXCEPT !.w[g] = [pc |-> IF locks("check") THEN "lock" ELSE "check",
                                  calls |-> ret.w[g].calls + 1, call |-> call]]
  /\ UNCHANGED <<cache, cacheRest>>

\* c.mu.Lock()
CacheLock(g) ==
  /\ ret.w[g].pc \in {"lock", "relock"}
  /\ ret.mu = 0
  /\ ret' = [ret EXCEPT !.mu = g, !.w[g].pc = IF @ = "lock" THEN "check" ELSE "write"]
  /\ UNCHANGED <<cache, cacheRest>>

\* the look-up in the map and c.mu.Unlock(); a hit returns
CacheCheck(g) ==
  /\ ret.w[g].pc = "check"
  /\ LET hit == Cached(cache, ret.w[g].call)
     IN  ret' = [ret EXCEPT !.mu = IF @ = g THEN 0 ELSE @,
                            !.unguarded = @ \/ ret.mu # g,
                            !.w[g] = IF hit # <<>>
                                     THEN [@ EXCEPT !.pc = "done"]
                                            @@ [err |-> FALSE, value |-> hit[1], hit |-> TRUE]
                                     ELSE [@ EXCEPT !.pc = "io"] @@ [hit |-> FALSE]]
  /\ UNCHANGED <<cache, cacheRest>>

\* the read of the file system, with no lock held; readFile returns on an error
CacheIO(g) ==
  /\ ret.w[g].pc = "io"
  /\ LET r == Uncached(tree, ret.w[g].call)
     IN  ret' = [ret EXCEPT !.w[g] = [@ EXCEPT !.pc = IF r.err THEN "done"
                                                      ELSE IF locks("write") THEN "relock" ELSE "write"]
                                       @@ r]
  /\ UNCHANGED <<cache, cacheRest>>

\* the write-back, c.mu.Unlock() and the return
CacheWrite(g) ==
  /\ ret.w[g].pc = "write"
  /\ cache' = IF ret.w[g].call.fn = "readFile"
              THEN [cache EXCEPT !.files = Put(@, ret.w[g].call.arg, ret.w[g].value)]
              ELSE [cache EXCEPT !.hasGo = Put(@, ret.w[g].call.arg, ret.w[g].value)]
  /\ ret' = [ret EXCEPT !.mu = IF @ = g THEN 0 ELSE @,
                        !.unguarded = @ \/ ret.mu # g,
                        !.w[g].pc = "done"]
  /\ UNCHANGED cacheRest

NextCache ==
  \/ \E g \in Walkers : \E call \in CacheCalls : CacheCall(g, call)
  \/ \E g \in Walkers : CacheLock(g)
  \/ \E g \in Walkers : CacheCheck(g)
  \/ \E g \in Walkers : CacheIO(g)
  \/ \E g \in Walkers : CacheWrite(g)

SpecCache == InitCache /\ [][NextCache]_vars

\* C32: no access to the maps of the fsCache is made without its mutex held;
\* every call that has returned without error returned what the file system
\* holds for its argument, and the cache holds that value for it.
C32_CacheSerialised ==
  /\ ~ret.unguarded
  /\ \A g \in Walkers : ret.w[g].pc = "done" =>
       /\ ret.w[g].err = Uncached(tree, ret.w[g].call).err
       /\ ~ret.w[g].err =>
            /\ ret.w[g].value = Uncached(tree, ret.w[g].call).value
            /\ Cached(cache, ret.w[g].call) = <<ret.w[g].value>>

\* two goroutines missed on the same file together, both read it and both
\* wrote it back
C32_Witness ==
  /\ \A g \in Walkers : ret.w[g].pc = "done" /\ ret.w[g].calls = 1 /\ ~ret.w[g].hit
  /\ \A g \in Walkers : ret.w[g].call = [fn |-> "readFile", arg |-> "shared/x/index.tsx"]
  /\ "shared/x/index.tsx" \in DOMAIN cache.files

(***************************************************************************)
(* Properties of the warm cache and of the persisted tables, stated over   *)
(* Spec.                                                                   *)
(***************************************************************************)
\* the paths and the directories the batch handed to Regenerate names
BatchPaths == {e.Path : e \in pending}

BatchDirs == {PathDir(e.Path) : e \in pending}

\* C33: after a Regenerate whose batch names path p, whatever the cache holds
\* for p or for p's directory is what the file system holds now (the walks of
\* the call read them afresh), and every entry cached before the call for a
\* path or directory the batch does not name is still there, unchanged.
C33_ChangedPathsReadAfresh ==
  [][RegenerateStep =>
       /\ \A p \in BatchPaths \cap DOMAIN cache'.files : cache'.files[p] = tree.tsx[p]
       /\ \A d \in BatchDirs \cap DOMAIN cache'.hasGo : cache'.hasGo[d] = dirHasGoFile(tree, d)
       /\ \A q \in DOMAIN cache.files \ BatchPaths :
            q \in DOMAIN cache'.files /\ cache'.files[q] = cache.files[q]
       /\ \A d \in DOMAIN cache.hasGo \ BatchDirs :
            d \in DOMAIN cache'.hasGo /\ cache'.hasGo[d] = cache.hasGo[d]]_vars

\* a Regenerate after one edit of routes/a/index.tsx: the cache, which held the
\* old content since Generate, now holds the new one, and still holds the
\* entry of shared/x/index.tsx, which the batch did not name
C33_Witness ==
  /\ ret.op = "Regenerate" /\ ~ret.err /\ edits = 1
  /\ "routes/a/index.tsx" \in DOMAIN cache.files
  /\ cache.files["routes/a/index.tsx"] = Tsx(<<>>)
  /\ tree.tsx["routes/a/index.tsx"] = Tsx(<<>>)
  /\ "shared/x/index.tsx" \in DOMAIN cache.files

\* the directories of the handler-source events of the batch
BatchGoDirs == {PathDir(e.Path) : e \in {x \in pending : x.Kind = "go"}}

\* the link of directory d exists: its sanitized path is a link to d
LinkOf(dsk, d) == LinkPath(d) \in DOMAIN dsk /\ dsk[LinkPath(d)] = d

\* C34: after a successful Regenerate whose batch holds a handler-source event
\* in directory d, d is in the parsed-file table exactly when parsing d again
\* yields a RouteFile, the entry is that parse result, and when d has a dynamic
\* segment the sanitized link of d exists exactly when d is in the table.
C34_TableAndLinkFollowReparse ==
  [][(RegenerateStep /\ ~ret'.err) =>
       \A d \in BatchGoDirs :
         /\ (d \in DOMAIN filesByDir') = (ParseSingleDir(tree, d).results # {Nil})
         /\ d \in DOMAIN filesByDir' => filesByDir'[d] \in ParseSingleDir(tree, d).results
         /\ ContainsChar(d, "$") => (LinkOf(disk', d) = (d \in DOMAIN filesByDir'))]_vars

(***************************************************************************)
(* Regenerate over a project with two route directories whose dynamic      *)
(* segments sit at different places: both have the sanitized name          *)
(* routes/u.id.                                                            *)
(***************************************************************************)
MaxLinkEdits == 3

LinksTree ==
  [go  |-> [d \in GoDirs \cup LinkDirs |-> IF d = "routes/u.$id" THEN "one" ELSE NoFile],
   tsx |-> [p \in TsxPaths |-> IF p = "routes/u.$id/index.tsx" THEN Tsx(<<>>) ELSE Absent]]

InitLinks ==
  /\ tree = LinksTree
  /\ pending = {}
  /\ edits = 0
  /\ filesByDir = EmptyMap
  /\ files = {}
  /\ deps = EmptyMap
  /\ entries = EmptyMap
  /\ prevServerCode = ""
  /\ cache = newFSCache
  /\ disk = EmptyMap
  /\ ret = Returned("none", FALSE, 0, EmptyMap, FALSE, {})
  /\ server = NoServer
  /\ watch = NoWatch
  /\ sidecar = NoSidecar
  /\ build = NoBuild

\* the first build of the project
FirstGenerate ==
  /\ ret.op = "none"
  /\ GenerateRun

\* write, create or delete the .go file of one of the two directories
LinkEdit(d, v) ==
  /\ ret.op # "none"
  /\ edits < MaxLinkEdits
  /\ Cardinality(pending) < MaxBatch
  /\ ~(tree.go[d] = NoFile /\ v = NoFile)
  /\ tree' = [tree EXCEPT !.go[d] = v]
  /\ pending' = pending \cup {ChangeEvent(GoPath(d), "go")}
  /\ edits' = edits + 1
  /\ UNCHANGED <<gstate, disk, ret, others>>

NextLinks ==
  \/ FirstGenerate /\ UNCHANGED others
  \/ Regenerate /\ UNCHANGED others
  \/ \E d \in LinkDirs : \E v \in {NoFile, "one"} : LinkEdit(d, v)

SpecLinks == InitLinks /\ [][NextLinks]_vars

\* C35: after every successful Generate or Regenerate, whatever calls came
\* before, server_gen.go holds exactly the persisted server text and every
\* path of the entries map is a hydration entry file that exists.
C35_DiskMatchesPersistedState ==
  (ret.op \in {"Generate", "Regenerate"} /\ ~ret.err) =>
    /\ ServerPath \in DOMAIN disk
    /\ disk[ServerPath] = prevServerCode
    /\ \A r \in DOMAIN entries : entries[r] \in DOMAIN disk

(***************************************************************************)
(* Properties of the dev loop's child process, stated over SpecDev.        *)
(***************************************************************************)
\* C36: in the dev loop at most one generated-server process is alive at any
\* time: a new one is started only after the last one was stopped.
C36_AtMostOneServerProcess == server.procs <= 1

(***************************************************************************)
(* The imports of the generated server entry, stated over SpecServer.      *)
(***************************************************************************)
\* strings.Contains
ContainsStr(s, sub) ==
  \E i \in 1..(Len(s) - Len(sub) + 1) : SubSeq(s, i, i + Len(sub) - 1) = sub

\* C37: every user package the generated server entry imports is invoked by
\* at least one route handler of that text: the text has no unused import.
C37_NoUnusedImport ==
  (ret.op = "GenerateServer" /\ ~ret.err) =>
    \A i \in 1..Len(ret.imports) :
      ContainsStr(ret.text, "(" \o ret.imports[i].Alias \o ".SSR(")

(***************************************************************************)
(* Debouncing, stated over SpecWatchFair.                                  *)
(***************************************************************************)
\* the timer case of the loop ran
TimerStep == watch.running /\ watch.timer /\ watch'.running /\ ~watch'.timer

MaxStops == 2

StopCalls == 1..MaxStops

\* the Watcher New returns: fsw is nil, done is open, no goroutine runs
NewWatcher ==
  [Started EXCEPT !.running = FALSE, !.list = {}]
    @@ [fsw |-> "nil", done |-> FALSE, loop |-> "none", start |-> "none",
        stop |-> [c \in StopCalls |-> "idle"]]

InitStop ==
  /\ tree = InitTree
  /\ pending = {}
  /\ edits = 0
  /\ filesByDir = EmptyMap
  /\ files = {}
  /\ deps = EmptyMap
  /\ entries = EmptyMap
  /\ prevServerCode = ""
  /\ cache = newFSCache
  /\ disk = EmptyMap
  /\ ret = Returned("none", FALSE, 0, EmptyMap, FALSE, {})
  /\ server = NoServer
  /\ build = NoBuild
  /\ sidecar = NoSidecar
  /\ watch = NewWatcher

\* Watcher.Start: fsnotify.NewWatcher fails, or the walk fails and the fsnotify
\* watcher is closed again, or the loop goroutine is started
StartCall(outcome) ==
  /\ watch.start = "none"
  /\ watch' = CASE outcome = "newWatcherErr" -> [watch EXCEPT !.start = "failed"]
                [] outcome = "walkErr" -> [watch EXCEPT !.start = "failed", !.fsw = "closed"]
                [] OTHER -> [watch EXCEPT !.start = "ok", !.fsw = "open", !.running = TRUE,
                                          !.list = walkAdd(".", watch.dirs), !.loop = "select"]
  /\ UNCHANGED watchOthers

\* Watcher.Stop up to its receive: fsnotify is closed when there is one
StopClose(c) ==
  /\ watch.stop[c] = "idle"
  /\ \A b \in StopCalls : b < c => watch.stop[b] # "idle"
  /\ watch' = IF watch.fsw = "nil" THEN [watch EXCEPT !.stop[c] = "waiting"]
              ELSE [watch EXCEPT !.stop[c] = "waiting", !.fsw = "closed",
                                 !.running = FALSE, !.events = <<>>]
  /\ UNCHANGED watchOthers

\* Watcher.Stop, <-w.done
StopReturn(c) ==
  /\ watch.stop[c] = "waiting"
  /\ watch.done
  /\ watch' = [watch EXCEPT !.stop[c] = "returned"]
  /\ UNCHANGED watchOthers

\* loop, case ev := <-w.fsw.Events with an event
StopLoopEvent ==
  /\ watch.loop = "select"
  /\ LoopEvent

\* loop, case <-timer.C: the goroutine is inside the onChange callbacks
StopLoopTimer ==
  /\ watch.loop = "select"
  /\ watch.timer
  /\ watch' = [flush(watch) EXCEPT !.loop = "onChange"]
  /\ UNCHANGED watchOthers

\* the last onChange callback of the timer case returns
CallbackReturn ==
  /\ watch.loop = "onChange"
  /\ watch' = [watch EXCEPT !.loop = "select"]
  /\ UNCHANGED watchOthers

\* loop, a receive from the closed Events or Errors channel: return, close(w.done)
LoopExit ==
  /\ watch.loop = "select"
  /\ watch.fsw = "closed"
  /\ watch' = [watch EXCEPT !.loop = "exited", !.done = TRUE]
  /\ UNCHANGED watchOthers

NextStop ==
  \/ \E outcome \in {"ok", "newWatcherErr", "walkErr"} : StartCall(outcome)
  \/ \E c \in StopCalls : StopClose(c)
  \/ \E c \in StopCalls : StopReturn(c)
  \/ \E f \in WatchFiles : \E op \in {"Create", "Write", "Remove"} : FsFile(f, op)
  \/ StopLoopEvent
  \/ StopLoopTimer
  \/ CallbackReturn
  \/ LoopExit

SpecStop == InitStop /\ [][NextStop]_vars

\* the loop goroutine and the goroutines inside Stop keep running, and every
\* onChange callback returns
SpecStopFair ==
  /\ SpecStop
  /\ WF_vars(LoopExit)
  /\ WF_vars(CallbackReturn)
  /\ WF_vars(\E c \in StopCalls : StopReturn(c))

\* C39: Watcher.Stop terminates whenever it is called: after a successful
\* Start, after a Start that returned an error, when Start was never called,
\* when called a second time, and while the loop is inside an onChange callback.
C39_StopTerminates ==
  \A c \in StopCalls : (watch.stop[c] = "waiting") ~> (watch.stop[c] = "returned")
=============================================================================
